---- MODULE Spec2Model ----
(***************************************************************************)
(* Replay controller and session workers of logreplay: the Player driver   *)
(* (Player.run and its handlers), the per-session workers (player.run),    *)
(* the scenario cursor (Player.nextRequest) and the blocking API calls     *)
(* Play / Once / Pause / Stop.                                             *)
(***************************************************************************)
EXTENDS Integers, Sequences, FiniteSets, TLC

\* ------------------------------------------------------------------ bounds
MaxWorkers == 2      \* largest Options.ConcurrentSessions explored
MaxCallers == 2      \* goroutines calling the API
MaxCalls == 2        \* API calls made in one behaviour
MaxLog == 1          \* largest number of entries in the access log
MaxCustom == 1       \* largest number of Options.Requests
MaxThreshold == 2    \* largest Options.HaltThreshold explored
ErrCap == MaxThreshold + 1   \* cap of the consecutive 5xx counter
MaxLength == 5       \* largest Request.ContentLength explored
DevUnits == 4        \* ContentLengthDeviation is explored in steps of 1/DevUnits
MaxDevSteps == 6     \* largest ContentLengthDeviation, in those steps
MaxPeriod == 3       \* largest player.maxRequestDuration, in time units
MaxDuration == 5     \* longest request, in time units
MaxRequests == 4     \* throttled requests of one worker
RateUnits == 2       \* Options.Throttle is explored in steps of 1/RateUnits
MaxRate == 8         \* largest Options.Throttle, in those steps
MaxSessions == 4     \* largest ConcurrentSessions when the period is computed
MaxPasses == 2       \* passes one cursor makes over the scenario
MaxPost == 2         \* largest Options.PostContentLength explored
MaxHops == 2         \* redirect responses the servers give to one request
MaxDo == 3           \* requests one client makes

\* ------------------------------------------------------- program constants
defaultHaltThreshold == 128
\* time.Second, counted in microseconds
Second == 1000000
\* http.StatusInternalServerError
StatusInternalServerError == 500

Callers == 1..MaxCallers

\* descriptors: the i-th access log entry is i, the j-th user request 100+j
LogEntry(i) == i
CustomRequest(j) == 100 + j

\* error values
Nil == "nil"
EOF == "EOF"
ErrNoRequests == "ErrNoRequests"
ErrServerError == "ErrServerError"
ErrRequestError == "ErrRequestError"
TransportError == "TransportError"     \* any other error value
Outcomes == {Nil, ErrServerError, TransportError}

VARIABLES
    options,        \* Player.options (with the log stream behind AccessLog)
    accessLog,      \* Player.accessLog and its reader: [open, read, eof]
    logEntries,     \* Player.logEntries
    errors,         \* Player.errors
    serverErrors,   \* Player.serverErrors
    players,        \* Player.players: the live workers, in list order
    once,           \* Player.once
    waitingError,   \* Player.waitingError: the parked Play/Once callers
    notRunning,     \* Player.notRunning: tokens in the one-slot latch
    signalPlay, signalOnce, signalPause, signalStop,   \* buffered(1) channels
    feed,           \* run(): feed != nil
    ctl,            \* position of the driver goroutine
    stopD,          \* run(): d of the signalStop case being handled (0: none)
    closeD,         \* <<caller, session>>: done channels of Stop that a
                    \* returning driver still has to close
    wpc,            \* position of each worker goroutine of the session
    position,       \* player.position
    feedOpen,       \* player.feed is not closed
    last,           \* descriptor most recently received by the worker
    issued,         \* the worker has called the client for that descriptor
    budget,         \* API calls the callers make in this behaviour
    cpc, op, ret,   \* API callers: position, call, returned value
    calls,          \* API calls made so far
    session,        \* number of sessions started
    terminal,       \* terminal value of the most recent session
    dispatched,     \* descriptors handed out in a session of Once signals only
    pure,           \* the session saw only Once signals and ok results
    consecErr,      \* TransportError results since the last ok, this session
    consecSrv,      \* ServerError results since the last ok, this session
    failsSinceOk,   \* request-class failures since the last ok result
    srvSinceOk,     \* ServerError results since the last ok result
    looped,         \* a worker of the session received the reset sentinel
    stopReturned,   \* session whose Stop call has returned most recently
    attach,         \* session that was running when the caller made its call
    drivers,        \* driver goroutines started that hold the token
    pauses,         \* the session: 0 never paused, 1 paused, 2 resumed
    atPause,        \* player.position of each worker at the latest Pause
    body,           \* client.createHTTPRequest: descriptor and outcome
    thr,            \* player.throttle: one worker's lag, clock and requests
    np,             \* newPlayer: the Throttle option and the worker's period
    nr,             \* Player.nextRequest with content settings: one cursor over descriptors
    cl              \* client.do and client.checkRedirect: one client and its requests

cfgVars == <<options, budget, body, thr, np, nr, cl>>
scenarioVars == <<accessLog, logEntries>>
counterVars == <<errors, serverErrors>>
sigVars == <<signalPlay, signalOnce, signalPause, signalStop>>
workerVars == <<wpc, position, feedOpen, last, issued>>
callerVars == <<cpc, op, ret>>
histVars == <<terminal, dispatched, pure, consecErr, consecSrv, failsSinceOk,
             srvSinceOk, looped>>
obsVars == <<stopReturned, attach, drivers, pauses, atPause>>
playerVars == <<options, accessLog, logEntries, errors, serverErrors, players, once,
          waitingError, notRunning, signalPlay, signalOnce, signalPause,
          signalStop, feed, ctl, stopD, closeD, wpc, position, feedOpen, last,
          issued, budget,
          cpc, op, ret, calls, session, terminal, dispatched, pure, consecErr,
          consecSrv, failsSinceOk, srvSinceOk, looped, stopReturned, attach,
          drivers, pauses, atPause>>
vars == <<playerVars, body, thr, np, nr, cl>>

\* ----------------------------------------------------------------- helpers
Range(s) == {s[i] : i \in 1..Len(s)}
Prefix(n, f(_)) == [i \in 1..n |-> f(i)]
Workers == 1..options.ConcurrentSessions
customRequests == options.Requests
\* the parsed projection of the access log stream
LogInput == options.AccessLog.entries
\* the scenario: log entries first, then the user-supplied requests
Scenario == LogInput \o customRequests

\* --------------------------------------------------------- scenario cursor
\* reader.ReadRequest: the next entry, a read error, or end of stream
\* (the reader: open, p.accessLog is set; read, the entries scanned so far;
\* eof, the scanner has reported the end of the stream)
ReadRequest(reader) ==
    IF reader.read < Len(LogInput)
        THEN [req |-> LogInput[reader.read + 1], err |-> Nil]
    ELSE IF options.AccessLog.fails
        THEN [req |-> 0, err |-> TransportError]
    ELSE [req |-> 0, err |-> EOF]

RECURSIVE nextRequest(_, _, _)
\* faulty variant: the user-supplied requests are served before the access log
nextRequestCustomFirst(pos, entries, reader) ==
    IF pos < Len(customRequests)
        THEN [r |-> customRequests[pos + 1], err |-> Nil,
              logEntries |-> entries, accessLog |-> reader]
    ELSE IF pos - Len(customRequests) < Len(entries)
        THEN [r |-> entries[pos - Len(customRequests) + 1], err |-> Nil,
              logEntries |-> entries, accessLog |-> reader]
    ELSE IF ~reader.open
        THEN [r |-> 0, err |-> EOF,
              logEntries |-> entries, accessLog |-> reader]
    ELSE LET rr == ReadRequest(reader) IN
         IF rr.err # Nil /\ rr.err # EOF
             THEN [r |-> 0, err |-> rr.err,
                   logEntries |-> entries, accessLog |-> reader]
         ELSE IF rr.err = EOF
             THEN [r |-> 0, err |-> EOF, logEntries |-> entries,
                   accessLog |-> [reader EXCEPT !.open = FALSE, !.eof = TRUE]]
         ELSE [r |-> rr.req, err |-> Nil,
               logEntries |-> Append(entries, rr.req),
               accessLog |-> [reader EXCEPT !.read = @ + 1]]

\* faulty variant: an entry served from memory is memoized a second time
nextRequestMemoAgain(pos, entries, reader) ==
    IF pos < Len(entries)
        THEN [r |-> entries[pos + 1], err |-> Nil,
              logEntries |-> Append(entries, entries[pos + 1]),
              accessLog |-> reader]
    ELSE IF ~reader.open
        THEN LET p == pos - Len(entries) IN
             IF p >= Len(customRequests)
                 THEN [r |-> 0, err |-> EOF,
                       logEntries |-> entries, accessLog |-> reader]
                 ELSE [r |-> customRequests[p + 1], err |-> Nil,
                       logEntries |-> entries, accessLog |-> reader]
    ELSE LET rr == ReadRequest(reader) IN
         IF rr.err # Nil /\ rr.err # EOF
             THEN [r |-> 0, err |-> rr.err,
                   logEntries |-> entries, accessLog |-> reader]
         ELSE IF rr.err = EOF
             THEN nextRequest(pos, entries, [reader EXCEPT !.open = FALSE, !.eof = TRUE])
         ELSE [r |-> rr.req, err |-> Nil,
               logEntries |-> Append(entries, rr.req),
               accessLog |-> [reader EXCEPT !.read = @ + 1]]

\* faulty variant: the reader is kept after it has reported the end of the log
nextRequestKeepsReader(pos, entries, reader) ==
    IF pos < Len(entries)
        THEN [r |-> entries[pos + 1], err |-> Nil,
              logEntries |-> entries, accessLog |-> reader]
    ELSE IF ~reader.open
        THEN LET p == pos - Len(entries) IN
             IF p >= Len(customRequests)
                 THEN [r |-> 0, err |-> EOF,
                       logEntries |-> entries, accessLog |-> reader]
                 ELSE [r |-> customRequests[p + 1], err |-> Nil,
                       logEntries |-> entries, accessLog |-> reader]
    ELSE LET rr == ReadRequest(reader) IN
         IF rr.err # Nil /\ rr.err # EOF
             THEN [r |-> 0, err |-> rr.err,
                   logEntries |-> entries, accessLog |-> reader]
         ELSE IF rr.err = EOF
             THEN LET p == pos - Len(entries) IN
                  IF p >= Len(customRequests)
                      THEN [r |-> 0, err |-> EOF, logEntries |-> entries,
                            accessLog |-> [reader EXCEPT !.eof = TRUE]]
                      ELSE [r |-> customRequests[p + 1], err |-> Nil,
                            logEntries |-> entries,
                            accessLog |-> [reader EXCEPT !.eof = TRUE]]
         ELSE [r |-> rr.req, err |-> Nil,
               logEntries |-> Append(entries, rr.req),
               accessLog |-> [reader EXCEPT !.read = @ + 1]]

nextRequest(pos, entries, reader) ==
    IF pos < Len(entries)
        THEN [r |-> entries[pos + 1], err |-> Nil,
              logEntries |-> entries, accessLog |-> reader]
    ELSE IF ~reader.open
        THEN LET p == pos - Len(entries) IN
             IF p >= Len(customRequests)
                 THEN [r |-> 0, err |-> EOF,
                       logEntries |-> entries, accessLog |-> reader]
                 ELSE [r |-> customRequests[p + 1], err |-> Nil,
                       logEntries |-> entries, accessLog |-> reader]
    ELSE LET rr == ReadRequest(reader) IN
         IF rr.err # Nil /\ rr.err # EOF
             THEN [r |-> 0, err |-> rr.err,
                   logEntries |-> entries, accessLog |-> reader]
         ELSE IF rr.err = EOF
             THEN nextRequest(pos, entries, [reader EXCEPT !.open = FALSE, !.eof = TRUE])
         ELSE [r |-> rr.req, err |-> Nil,
               logEntries |-> Append(entries, rr.req),
               accessLog |-> [reader EXCEPT !.read = @ + 1]]

\* ------------------------------------------------------ failure accounting
\* faulty variant: halts only when the counter exceeds the threshold
checkHaltErrorAbove(errs) == ~(errs <= options.HaltThreshold)

checkHaltError(errs) == ~(errs < options.HaltThreshold)

\* faulty variant: HaltOn500 is not consulted
checkHaltStatusAlways(srv) == ~(srv < options.HaltThreshold)

checkHaltStatus(srv) == ~(~options.HaltOn500 \/ srv < options.HaltThreshold)

\* faulty variant: an ok result resets the request-error counter only
checkErrorKeepsServerErrors(err, errs, srv) ==
    CASE err = Nil -> [err |-> Nil, errors |-> 0, serverErrors |-> srv]
      [] err = ErrNoRequests ->
            [err |-> ErrNoRequests, errors |-> errs, serverErrors |-> srv]
      [] err = ErrServerError ->
            [err |-> IF ~(~options.HaltOn500 \/ srv + 1 < options.HaltThreshold)
                         THEN ErrServerError ELSE Nil,
             errors |-> errs, serverErrors |-> srv + 1]
      [] OTHER ->
            [err |-> IF ~(errs + 1 < options.HaltThreshold)
                         THEN ErrRequestError ELSE Nil,
             errors |-> errs + 1, serverErrors |-> srv]

checkError(err, errs, srv) ==
    CASE err = Nil -> [err |-> Nil, errors |-> 0, serverErrors |-> 0]
      [] err = ErrNoRequests ->
            [err |-> ErrNoRequests, errors |-> errs, serverErrors |-> srv]
      [] err = ErrServerError ->
            [err |-> IF checkHaltStatus(srv + 1) THEN ErrServerError ELSE Nil,
             errors |-> errs, serverErrors |-> srv + 1]
      [] OTHER ->
            [err |-> IF checkHaltError(errs + 1) THEN ErrRequestError ELSE Nil,
             errors |-> errs + 1, serverErrors |-> srv]

\* ------------------------------------------------------- stopping workers
RemoveAt(ps, i) == SubSeq(ps, 1, i) \o SubSeq(ps, i + 2, Len(ps))

RECURSIVE indexOf(_, _, _)
indexOf(ps, w, i) ==
    IF i >= Len(ps) \/ ps[i + 1] = w THEN i ELSE indexOf(ps, w, i + 1)

\* stopPlayer(i, feed): i is 0-based, i < 0 looks the worker up by its channel
stopPlayer(i, w, ps) ==
    LET j == IF i < 0 THEN indexOf(ps, w, 0) ELSE i IN
    IF j >= Len(ps) THEN ps ELSE RemoveAt(ps, j)

\* stop(): for i := range p.players { p.stopPlayer(i, nil) }
\* the range is fixed to the n elements the list had when the loop began
RECURSIVE stopLoop(_, _, _)
stopLoop(i, n, ps) ==
    IF i >= n THEN ps ELSE stopLoop(i + 1, n, stopPlayer(i, 0, ps))

stopPlayers(ps) == stopLoop(0, Len(ps), ps)


\* faulty variant: only the first parked caller is sent the value
deliverFirst(ws, err) == [c \in {ws[i] : i \in 1..(IF Len(ws) > 0 THEN 1 ELSE 0)} |-> err]

\* values sent to the parked callers: for _, w := range p.waitingError { w <- err }
deliver(ws, err) == [c \in Range(ws) |-> err]

\* Player.stop up to the last send to a waiter; the token is returned next.
\* ps, open, errs, srv: the players, channels and counters the handler has
\* reached when it calls stop.
stop(err, ps, open, errs, srv) ==
    LET rem == stopPlayers(ps)
        ce == checkError(err, errs, srv)
        sent == deliver(waitingError, ce.err)
    IN  /\ players' = rem
        /\ feedOpen' = [w \in Workers |->
                           open[w] /\ (w \in Range(rem) \/ w \notin Range(ps))]
        /\ errors' = ce.errors
        /\ serverErrors' = ce.serverErrors
        /\ terminal' = ce.err
        /\ cpc' = [c \in Callers |-> IF c \in DOMAIN sent THEN "idle" ELSE cpc[c]]
        /\ ret' = [c \in Callers |-> IF c \in DOMAIN sent THEN sent[c] ELSE ret[c]]
        /\ ctl' = "token"

\* ------------------------------------------------------------ construction
Configs ==
    [Requests : {Prefix(n, CustomRequest) : n \in 0..MaxCustom},
     AccessLog : {[present |-> FALSE, entries |-> <<>>, fails |-> FALSE]}
                 \cup [present : {TRUE},
                       entries : {Prefix(n, LogEntry) : n \in 0..MaxLog},
                       fails : BOOLEAN],
     ConcurrentSessions : 1..MaxWorkers,
     HaltOn500 : BOOLEAN,
     HaltThreshold : 0..MaxThreshold]

\* New(o)
New(o) ==
    /\ options = o
    /\ accessLog = [open |-> o.AccessLog.present, read |-> 0, eof |-> FALSE]
    /\ logEntries = <<>>
    /\ errors = 0
    /\ serverErrors = 0
    /\ players = <<>>
    /\ once = FALSE
    /\ waitingError = <<>>
    /\ notRunning = 1
    /\ signalPlay = <<>>
    /\ signalOnce = <<>>
    /\ signalPause = <<>>
    /\ signalStop = <<>>
    /\ feed = FALSE
    /\ ctl = "idle"
    /\ stopD = 0
    /\ closeD = {}
    /\ wpc = [w \in 1..o.ConcurrentSessions |-> "none"]
    /\ position = [w \in 1..o.ConcurrentSessions |-> 0]
    /\ feedOpen = [w \in 1..o.ConcurrentSessions |-> FALSE]
    /\ last = [w \in 1..o.ConcurrentSessions |-> 0]
    /\ issued = [w \in 1..o.ConcurrentSessions |-> FALSE]
    /\ cpc = [c \in Callers |-> "idle"]
    /\ op = [c \in Callers |-> "none"]
    /\ ret = [c \in Callers |-> "none"]
    /\ calls = 0
    /\ session = 0
    /\ terminal = "none"
    /\ dispatched = 0
    /\ pure = FALSE
    /\ consecErr = 0
    /\ consecSrv = 0
    /\ failsSinceOk = 0
    /\ srvSinceOk = 0
    /\ looped = FALSE
    /\ stopReturned = 0
    /\ attach = [c \in Callers |-> 0]
    /\ drivers = 0
    /\ pauses = 0
    /\ atPause = [w \in 1..o.ConcurrentSessions |-> 0]

\* no request is being built, no worker is being throttled or created
NoBody == [stage |-> "none", L |-> 0, q |-> 0, B |-> 0]
NoThrottle == [m |-> 0, throttleLag |-> 0, elapsed |-> 0, slept |-> 0, n |-> 0]
NoPlayer == [stage |-> "none", T |-> 0, N |-> 1, num |-> 0, den |-> 1, m |-> 0]
NoServe == [stage |-> "none"]
NoClient == [stage |-> "none"]

Init ==
    /\ cl = NoClient
    /\ nr = NoServe
    /\ budget = MaxCalls
    /\ body = NoBody /\ thr = NoThrottle /\ np = NoPlayer
    /\ \E o \in Configs : New(o)

\* configurations of the longer call sequences (Play, Pause, Play; Play, Stop,
\* Play): the full scenario replayed by all workers, and the empty scenarios
ResumeConfigs ==
    {o \in Configs :
        \/ /\ o.ConcurrentSessions = MaxWorkers
           /\ Len(o.Requests) = MaxCustom
           /\ o.AccessLog.present /\ ~o.AccessLog.fails
           /\ Len(o.AccessLog.entries) = MaxLog
           /\ o.HaltOn500 /\ o.HaltThreshold = 1
        \/ /\ o.ConcurrentSessions = 1
           /\ o.Requests = <<>> /\ o.AccessLog.entries = <<>>
           /\ ~o.HaltOn500 /\ o.HaltThreshold = MaxThreshold}

InitResume ==
    /\ cl = NoClient
    /\ nr = NoServe
    /\ budget = MaxCalls + 1
    /\ body = NoBody /\ thr = NoThrottle /\ np = NoPlayer
    /\ \E o \in ResumeConfigs : New(o)

\* ---------------------------------------------------------------- API calls
\* faulty variant: a driver is started whether or not the token is there
CallStartNoLatch(c, o) ==
    /\ ctl # "panic"
    /\ cpc[c] = "idle"
    /\ calls < budget
    /\ notRunning' = 0
    /\ waitingError' = <<>>
    /\ players' = [i \in 1..options.ConcurrentSessions |-> i]
    /\ wpc' = [w \in Workers |-> "select"]
    /\ position' = [w \in Workers |-> 0]
    /\ feedOpen' = [w \in Workers |-> TRUE]
    /\ last' = [w \in Workers |-> 0]
    /\ issued' = [w \in Workers |-> FALSE]
    /\ feed' = FALSE
    /\ ctl' = "select"
    /\ cpc' = [cpc EXCEPT ![c] = "send"]
    /\ op' = [op EXCEPT ![c] = o]
    /\ ret' = [ret EXCEPT ![c] = "none"]
    /\ calls' = calls + 1
    /\ session' = session + 1
    /\ terminal' = "none"
    /\ dispatched' = 0
    /\ pure' = TRUE
    /\ consecErr' = 0
    /\ consecSrv' = 0
    /\ looped' = FALSE
    /\ attach' = [attach EXCEPT ![c] = 0]
    /\ drivers' = drivers + 1
    /\ pauses' = 0
    /\ atPause' = [w \in Workers |-> 0]
    /\ UNCHANGED <<cfgVars, stopReturned, scenarioVars, counterVars, once, sigVars, stopD,
                   closeD, failsSinceOk, srvSinceOk>>

\* faulty variant: the workers of a new session take over the old positions
CallStartKeepsPosition(c, o) ==
    /\ ctl # "panic"
    /\ cpc[c] = "idle"
    /\ calls < budget
    /\ notRunning = 1
    /\ notRunning' = 0
    /\ waitingError' = <<>>
    /\ players' = [i \in 1..options.ConcurrentSessions |-> i]
    /\ wpc' = [w \in Workers |-> "select"]
    /\ position' = position
    /\ feedOpen' = [w \in Workers |-> TRUE]
    /\ last' = [w \in Workers |-> 0]
    /\ issued' = [w \in Workers |-> FALSE]
    /\ feed' = FALSE
    /\ ctl' = "select"
    /\ cpc' = [cpc EXCEPT ![c] = "send"]
    /\ op' = [op EXCEPT ![c] = o]
    /\ ret' = [ret EXCEPT ![c] = "none"]
    /\ calls' = calls + 1
    /\ session' = session + 1
    /\ terminal' = "none"
    /\ dispatched' = 0
    /\ pure' = TRUE
    /\ consecErr' = 0
    /\ consecSrv' = 0
    /\ looped' = FALSE
    /\ attach' = [attach EXCEPT ![c] = 0]
    /\ drivers' = drivers + 1
    /\ pauses' = 0
    /\ atPause' = [w \in Workers |-> 0]
    /\ UNCHANGED <<cfgVars, stopReturned, scenarioVars, counterVars, once, sigVars, stopD,
                   closeD, failsSinceOk, srvSinceOk>>

\* Play / Once, isRunning() finds the token: go p.run(), up to the select loop
CallStart(c, o) ==
    /\ ctl # "panic"
    /\ cpc[c] = "idle"
    /\ calls < budget
    /\ notRunning = 1
    /\ notRunning' = 0
    /\ waitingError' = <<>>
    /\ players' = [i \in 1..options.ConcurrentSessions |-> i]
    /\ wpc' = [w \in Workers |-> "select"]
    /\ position' = [w \in Workers |-> 0]
    /\ feedOpen' = [w \in Workers |-> TRUE]
    /\ last' = [w \in Workers |-> 0]
    /\ issued' = [w \in Workers |-> FALSE]
    /\ feed' = FALSE
    /\ ctl' = "select"
    /\ cpc' = [cpc EXCEPT ![c] = "send"]
    /\ op' = [op EXCEPT ![c] = o]
    /\ ret' = [ret EXCEPT ![c] = "none"]
    /\ calls' = calls + 1
    /\ session' = session + 1
    /\ terminal' = "none"
    /\ dispatched' = 0
    /\ pure' = TRUE
    /\ consecErr' = 0
    /\ consecSrv' = 0
    /\ looped' = FALSE
    /\ attach' = [attach EXCEPT ![c] = 0]
    /\ drivers' = drivers + 1
    /\ pauses' = 0
    /\ atPause' = [w \in Workers |-> 0]
    /\ UNCHANGED <<cfgVars, stopReturned, scenarioVars, counterVars, once, sigVars, stopD,
                   closeD, failsSinceOk, srvSinceOk>>

\* Play / Once, isRunning() finds no token: no driver is started
CallJoin(c, o) ==
    /\ ctl # "panic"
    /\ cpc[c] = "idle"
    /\ calls < budget
    /\ notRunning = 0
    /\ cpc' = [cpc EXCEPT ![c] = "send"]
    /\ op' = [op EXCEPT ![c] = o]
    /\ ret' = [ret EXCEPT ![c] = "none"]
    /\ calls' = calls + 1
    /\ attach' = [attach EXCEPT ![c] = session]
    /\ UNCHANGED <<cfgVars, stopReturned, drivers, pauses, atPause, scenarioVars, counterVars, players, once,
                   waitingError, notRunning, sigVars, feed, ctl, stopD, closeD,
                   workerVars, session, histVars>>

\* signalError: s <- done
SendPlay(c) ==
    /\ ctl # "panic"
    /\ cpc[c] = "send" /\ op[c] = "Play"
    /\ signalPlay = <<>>
    /\ signalPlay' = <<c>>
    /\ cpc' = [cpc EXCEPT ![c] = "wait"]
    /\ UNCHANGED <<cfgVars, obsVars, scenarioVars, counterVars, players, once,
                   waitingError, notRunning, signalOnce, signalPause,
                   signalStop, feed, ctl, stopD, closeD, workerVars, op, ret,
                   calls, session, histVars>>

SendOnce(c) ==
    /\ ctl # "panic"
    /\ cpc[c] = "send" /\ op[c] = "Once"
    /\ signalOnce = <<>>
    /\ signalOnce' = <<c>>
    /\ cpc' = [cpc EXCEPT ![c] = "wait"]
    /\ UNCHANGED <<cfgVars, obsVars, scenarioVars, counterVars, players, once,
                   waitingError, notRunning, signalPlay, signalPause,
                   signalStop, feed, ctl, stopD, closeD, workerVars, op, ret,
                   calls, session, histVars>>

\* Pause(): signal(p.signalPause), the send
CallPause(c) ==
    /\ ctl # "panic"
    /\ cpc[c] = "idle"
    /\ calls < budget
    /\ signalPause = <<>>
    /\ signalPause' = <<c>>
    /\ cpc' = [cpc EXCEPT ![c] = "wait"]
    /\ op' = [op EXCEPT ![c] = "Pause"]
    /\ ret' = [ret EXCEPT ![c] = "none"]
    /\ calls' = calls + 1
    /\ attach' = [attach EXCEPT ![c] = IF ctl = "select" THEN session ELSE 0]
    /\ UNCHANGED <<cfgVars, stopReturned, drivers, pauses, atPause, scenarioVars, counterVars, players, once,
                   waitingError, notRunning, signalPlay, signalOnce,
                   signalStop, feed, ctl, stopD, closeD, workerVars, session,
                   histVars>>

\* Stop(): signal(p.signalStop), the send
CallStop(c) ==
    /\ ctl # "panic"
    /\ cpc[c] = "idle"
    /\ calls < budget
    /\ signalStop = <<>>
    /\ signalStop' = <<c>>
    /\ cpc' = [cpc EXCEPT ![c] = "wait"]
    /\ op' = [op EXCEPT ![c] = "Stop"]
    /\ ret' = [ret EXCEPT ![c] = "none"]
    /\ calls' = calls + 1
    /\ attach' = [attach EXCEPT ![c] = IF ctl = "select" THEN session ELSE 0]
    /\ UNCHANGED <<cfgVars, stopReturned, drivers, pauses, atPause, scenarioVars, counterVars, players, once,
                   waitingError, notRunning, signalPlay, signalOnce,
                   signalPause, feed, ctl, stopD, closeD, workerVars, session,
                   histVars>>

\* ------------------------------------------------------- driver: Player.run
\* faulty variant: Play sends every worker back to the first request
CtlPlayRestarts ==
    /\ ctl = "select"
    /\ signalPlay # <<>>
    /\ waitingError' = Append(waitingError, Head(signalPlay))
    /\ signalPlay' = <<>>
    /\ once' = FALSE
    /\ position' = [w \in Workers |-> 0]
    /\ feed' = TRUE
    /\ pure' = FALSE
    /\ dispatched' = 0
    /\ pauses' = IF pauses = 1 THEN 2 ELSE pauses
    /\ UNCHANGED <<cfgVars, stopReturned, attach, drivers, atPause, scenarioVars, counterVars, players, notRunning,
                   signalOnce, signalPause, signalStop, ctl, stopD, closeD,
                   wpc, feedOpen, last, issued, callerVars, calls, session, terminal,
                   consecErr, consecSrv, failsSinceOk, srvSinceOk, looped>>

\* case d := <-p.signalPlay
CtlPlay ==
    /\ ctl = "select"
    /\ signalPlay # <<>>
    /\ waitingError' = Append(waitingError, Head(signalPlay))
    /\ signalPlay' = <<>>
    /\ once' = FALSE
    /\ feed' = TRUE
    /\ pure' = FALSE
    /\ dispatched' = 0
    /\ pauses' = IF pauses = 1 THEN 2 ELSE pauses
    /\ UNCHANGED <<cfgVars, stopReturned, attach, drivers, atPause, scenarioVars, counterVars, players, notRunning,
                   signalOnce, signalPause, signalStop, ctl, stopD, closeD,
                   workerVars, callerVars, calls, session, terminal,
                   consecErr, consecSrv, failsSinceOk, srvSinceOk, looped>>

\* faulty variant: a Once signal clears the failure counters
CtlOnceResetsCounters ==
    /\ ctl = "select"
    /\ signalOnce # <<>>
    /\ waitingError' = Append(waitingError, Head(signalOnce))
    /\ signalOnce' = <<>>
    /\ once' = TRUE
    /\ feed' = TRUE
    /\ errors' = 0
    /\ serverErrors' = 0
    /\ pauses' = IF pauses = 1 THEN 2 ELSE pauses
    /\ UNCHANGED <<cfgVars, stopReturned, attach, drivers, atPause, scenarioVars, players, notRunning,
                   signalPlay, signalPause, signalStop, ctl, stopD, closeD,
                   workerVars, callerVars, calls, session, histVars>>

\* case d := <-p.signalOnce
CtlOnce ==
    /\ ctl = "select"
    /\ signalOnce # <<>>
    /\ waitingError' = Append(waitingError, Head(signalOnce))
    /\ signalOnce' = <<>>
    /\ once' = TRUE
    /\ feed' = TRUE
    /\ pauses' = IF pauses = 1 THEN 2 ELSE pauses
    /\ UNCHANGED <<cfgVars, stopReturned, attach, drivers, atPause, scenarioVars, counterVars, players, notRunning,
                   signalPlay, signalPause, signalStop, ctl, stopD, closeD,
                   workerVars, callerVars, calls, session, histVars>>

\* faulty variant: Pause releases its caller and leaves the feed on
CtlPauseKeepsFeeding ==
    /\ ctl = "select"
    /\ signalPause # <<>>
    /\ signalPause' = <<>>
    /\ feed' = feed
    /\ cpc' = [cpc EXCEPT ![Head(signalPause)] = "idle"]
    /\ ret' = [ret EXCEPT ![Head(signalPause)] = "returned"]
    /\ pauses' = 1
    /\ atPause' = position
    /\ UNCHANGED <<cfgVars, stopReturned, attach, drivers, scenarioVars, counterVars, players, once,
                   waitingError, notRunning, signalPlay, signalOnce,
                   signalStop, ctl, stopD, closeD, workerVars, op, calls,
                   session, histVars>>

\* case d := <-p.signalPause: feed = nil; close(d)
CtlPause ==
    /\ ctl = "select"
    /\ signalPause # <<>>
    /\ signalPause' = <<>>
    /\ feed' = FALSE
    /\ cpc' = [cpc EXCEPT ![Head(signalPause)] = "idle"]
    /\ ret' = [ret EXCEPT ![Head(signalPause)] = "returned"]
    /\ pauses' = 1
    /\ atPause' = position
    /\ UNCHANGED <<cfgVars, stopReturned, attach, drivers, scenarioVars, counterVars, players, once,
                   waitingError, notRunning, signalPlay, signalOnce,
                   signalStop, ctl, stopD, closeD, workerVars, op, calls,
                   session, histVars>>

\* faulty variant: Stop ends the session with an error value
CtlStopWithError ==
    /\ ctl = "select"
    /\ signalStop # <<>>
    /\ signalStop' = <<>>
    /\ stopD' = Head(signalStop)
    /\ stop(ErrNoRequests, players, feedOpen, errors, serverErrors)
    /\ pure' = FALSE
    /\ dispatched' = 0
    /\ UNCHANGED <<cfgVars, obsVars, issued, scenarioVars, once, waitingError, notRunning,
                   signalPlay, signalOnce, signalPause, feed, closeD, wpc,
                   position, last, op, calls, session, consecErr, consecSrv,
                   failsSinceOk, srvSinceOk, looped>>

\* case d := <-p.signalStop: p.stop(nil), up to the return of the token
CtlStop ==
    /\ ctl = "select"
    /\ signalStop # <<>>
    /\ signalStop' = <<>>
    /\ stopD' = Head(signalStop)
    /\ stop(Nil, players, feedOpen, errors, serverErrors)
    /\ pure' = FALSE
    /\ dispatched' = 0
    /\ UNCHANGED <<cfgVars, obsVars, issued, scenarioVars, once, waitingError, notRunning,
                   signalPlay, signalOnce, signalPause, feed, closeD, wpc,
                   position, last, op, calls, session, consecErr, consecSrv,
                   failsSinceOk, srvSinceOk, looped>>

\* history of the results the driver has received
countResult(res) ==
    /\ consecErr' = IF res = Nil THEN 0
                    ELSE IF res = TransportError THEN consecErr + 1
                    ELSE consecErr
    /\ consecSrv' = IF res = Nil THEN 0
                    ELSE IF res = ErrServerError THEN consecSrv + 1
                    ELSE consecSrv
    /\ failsSinceOk' = IF res = Nil THEN 0
                       ELSE IF res = TransportError THEN failsSinceOk + 1
                       ELSE failsSinceOk
    /\ srvSinceOk' = IF res = Nil THEN 0
                     ELSE IF res = ErrServerError THEN srvSinceOk + 1
                     ELSE srvSinceOk
    /\ pure' = (pure /\ res = Nil)
    /\ dispatched' = IF pure /\ res = Nil THEN dispatched ELSE 0
    /\ looped' = looped

\* case err := <-results, checkHalt(err) false: the worker's request ended
\* with res and its send on results is received
ResultContinue(w, res) ==
    /\ ctl = "select"
    /\ wpc[w] = "request" /\ issued[w]
    /\ res = ErrServerError => consecSrv < ErrCap
    /\ LET ce == checkError(res, errors, serverErrors) IN
        /\ ce.err = Nil
        /\ errors' = ce.errors
        /\ serverErrors' = ce.serverErrors
    /\ wpc' = [wpc EXCEPT ![w] = "select"]
    /\ issued' = [issued EXCEPT ![w] = FALSE]
    /\ countResult(res)
    /\ UNCHANGED <<cfgVars, obsVars, scenarioVars, players, once, waitingError,
                   notRunning, sigVars, feed, ctl, stopD, closeD, position,
                   feedOpen, last, callerVars, calls, session, terminal>>

\* case err := <-results, checkHalt(err) true: p.stop(err), return
ResultHalt(w, res) ==
    /\ ctl = "select"
    /\ wpc[w] = "request" /\ issued[w]
    /\ res = ErrServerError => consecSrv < ErrCap
    /\ LET ce == checkError(res, errors, serverErrors) IN
        /\ ce.err # Nil
        /\ stop(ce.err, players, feedOpen, ce.errors, ce.serverErrors)
    /\ wpc' = [wpc EXCEPT ![w] = "select"]
    /\ issued' = [issued EXCEPT ![w] = FALSE]
    /\ countResult(res)
    /\ UNCHANGED <<cfgVars, obsVars, scenarioVars, once, waitingError, notRunning,
                   sigVars, feed, stopD, closeD, position, last, op, calls,
                   session>>

CtlResult(w, res) == ResultContinue(w, res) \/ ResultHalt(w, res)

\* p.notRunning <- signalToken{}, the end of Player.stop; the driver returns,
\* after close(d) when it was stopped by Stop
ReturnToken ==
    /\ ctl = "token"
    /\ notRunning < 1
    /\ notRunning' = notRunning + 1
    /\ ctl' = "idle"
    /\ closeD' = IF stopD # 0 THEN closeD \cup {<<stopD, session>>} ELSE closeD
    /\ stopD' = 0
    /\ drivers' = drivers - 1
    /\ UNCHANGED <<cfgVars, stopReturned, attach, pauses, atPause, scenarioVars, counterVars, players, once,
                   waitingError, sigVars, feed, workerVars, callerVars, calls,
                   session, histVars>>

\* close(d) of the signalStop case: Stop returns
CloseDone(c) ==
    /\ ctl # "panic"
    /\ \E e \in closeD : e[1] = c
    /\ closeD' = {e \in closeD : e[1] # c}
    /\ cpc' = [cpc EXCEPT ![c] = "idle"]
    /\ ret' = [ret EXCEPT ![c] = "returned"]
    /\ stopReturned' = (CHOOSE e \in closeD : e[1] = c)[2]
    /\ UNCHANGED <<cfgVars, attach, drivers, pauses, atPause, scenarioVars, counterVars, players, once,
                   waitingError, notRunning, sigVars, feed, ctl, stopD,
                   workerVars, op, calls, session, histVars>>

\* -------------------------------------------------------- worker: player.run
\* case r, open := <-p.feed: if !open { return }
WorkerExit(w) ==
    /\ ctl # "panic"
    /\ wpc[w] = "select"
    /\ ~feedOpen[w]
    /\ wpc' = [wpc EXCEPT ![w] = "exited"]
    /\ UNCHANGED <<cfgVars, obsVars, issued, scenarioVars, counterVars, players, once,
                   waitingError, notRunning, sigVars, feed, ctl, stopD, closeD,
                   position, feedOpen, last, callerVars, calls, session,
                   histVars>>

\* p.throttle(func() error { return p.client.do(r) }): the worker, holding
\* the descriptor it received, calls the client and the request goes out
Issue(w) ==
    /\ ctl # "panic"
    /\ wpc[w] = "request"
    /\ ~issued[w]
    /\ issued' = [issued EXCEPT ![w] = TRUE]
    /\ UNCHANGED <<cfgVars, obsVars, scenarioVars, counterVars, players, once,
                   waitingError, notRunning, sigVars, feed, ctl, stopD, closeD,
                   wpc, position, feedOpen, last, callerVars, calls, session,
                   histVars>>

\* ------------------------------------------------- driver: Player.feedRequest
\* a worker's offer (position, reply channel) is received: case f := <-feed
Offered(w) ==
    /\ ctl = "select"
    /\ feed
    /\ wpc[w] = "select"

lookup(w) == nextRequest(position[w], logEntries, accessLog)

\* faulty variant: once mode ends the session at the first worker reaching the end
eofBranchFirstEnds(isOnce, pos, nleft) ==
    IF isOnce THEN "stop"
    ELSE IF pos = 0 THEN "norequests"
    ELSE "reset"

\* faulty variant: loop mode resets the worker at the end also at position 0
eofBranchAlwaysResets(isOnce, pos, nleft) ==
    IF isOnce
        THEN IF nleft = 0 THEN "stop" ELSE "drop"
    ELSE "reset"

\* faulty variant: loop mode reports NoRequests at the end of any pass
eofBranchNoRequestsAtEnd(isOnce, pos, nleft) ==
    IF isOnce
        THEN IF nleft = 0 THEN "stop" ELSE "drop"
    ELSE "norequests"

\* feedRequest at err == io.EOF: what becomes of the offer
eofBranch(isOnce, pos, nleft) ==
    IF isOnce
        THEN IF nleft = 0 THEN "stop" ELSE "drop"
    ELSE IF pos = 0 THEN "norequests"
    ELSE "reset"

\* the players and channels after p.stopPlayer(-1, f.response)
dropped(w) == stopPlayer(-1, w, players)
\* faulty variant: the worker is removed from the list, its channel left open
droppedOpenNotClosed(w) == feedOpen

droppedOpen(w) ==
    IF w \in Range(players) THEN [feedOpen EXCEPT ![w] = FALSE] ELSE feedOpen

\* once mode, end of scenario, other workers left: the worker is dropped
FeedDrop(w) ==
    /\ Offered(w)
    /\ lookup(w).err = EOF
    /\ eofBranch(once, position[w], Len(dropped(w))) = "drop"
    /\ players' = dropped(w)
    /\ feedOpen' = droppedOpen(w)
    /\ logEntries' = lookup(w).logEntries
    /\ accessLog' = lookup(w).accessLog
    /\ UNCHANGED <<cfgVars, obsVars, issued, counterVars, once, waitingError, notRunning,
                   sigVars, feed, ctl, stopD, closeD, wpc, position, last,
                   callerVars, calls, session, histVars>>

\* once mode, end of scenario, no worker left: p.stop(nil)
FeedEnd(w) ==
    /\ Offered(w)
    /\ lookup(w).err = EOF
    /\ eofBranch(once, position[w], Len(dropped(w))) = "stop"
    /\ stop(Nil, dropped(w), droppedOpen(w), errors, serverErrors)
    /\ logEntries' = lookup(w).logEntries
    /\ accessLog' = lookup(w).accessLog
    /\ UNCHANGED <<cfgVars, obsVars, issued, once, waitingError, notRunning, sigVars, feed,
                   stopD, closeD, wpc, position, last, op, calls, session,
                   dispatched, pure, consecErr, consecSrv, failsSinceOk,
                   srvSinceOk, looped>>

\* loop mode, end of scenario at position 0: p.stop(ErrNoRequests)
FeedNoRequests(w) ==
    /\ Offered(w)
    /\ lookup(w).err = EOF
    /\ eofBranch(once, position[w], Len(players)) = "norequests"
    /\ stop(ErrNoRequests, players, feedOpen, errors, serverErrors)
    /\ logEntries' = lookup(w).logEntries
    /\ accessLog' = lookup(w).accessLog
    /\ UNCHANGED <<cfgVars, obsVars, issued, once, waitingError, notRunning, sigVars, feed,
                   stopD, closeD, wpc, position, last, op, calls, session,
                   dispatched, pure, consecErr, consecSrv, failsSinceOk,
                   srvSinceOk, looped>>

\* loop mode, end of scenario: f.response <- nil, the worker sets position 0
FeedReset(w) ==
    /\ Offered(w)
    /\ lookup(w).err = EOF
    /\ eofBranch(once, position[w], Len(players)) = "reset"
    /\ feedOpen[w]
    /\ position' = [position EXCEPT ![w] = 0]
    /\ looped' = TRUE
    /\ logEntries' = lookup(w).logEntries
    /\ accessLog' = lookup(w).accessLog
    /\ UNCHANGED <<cfgVars, obsVars, issued, counterVars, players, once, waitingError,
                   notRunning, sigVars, feed, ctl, stopD, closeD, wpc,
                   feedOpen, last, callerVars, calls, session, terminal,
                   dispatched, pure, consecErr, consecSrv, failsSinceOk,
                   srvSinceOk>>

\* faulty variant: the worker counts a received descriptor twice
FeedSendSkips(w) ==
    /\ Offered(w)
    /\ lookup(w).err = Nil
    /\ feedOpen[w]
    /\ position' = [position EXCEPT ![w] = @ + 2]
    /\ last' = [last EXCEPT ![w] = lookup(w).r]
    /\ wpc' = [wpc EXCEPT ![w] = "request"]
    /\ logEntries' = lookup(w).logEntries
    /\ accessLog' = lookup(w).accessLog
    /\ dispatched' = IF pure THEN dispatched + 1 ELSE 0
    /\ UNCHANGED <<cfgVars, obsVars, issued, counterVars, players, once, waitingError,
                   notRunning, sigVars, feed, ctl, stopD, closeD, feedOpen,
                   callerVars, calls, session, terminal, pure, consecErr,
                   consecSrv, failsSinceOk, srvSinceOk, looped>>

\* f.response <- &rc: the worker takes the descriptor, position++, and calls
\* the client
FeedSend(w) ==
    /\ Offered(w)
    /\ lookup(w).err = Nil
    /\ feedOpen[w]
    /\ position' = [position EXCEPT ![w] = @ + 1]
    /\ last' = [last EXCEPT ![w] = lookup(w).r]
    /\ wpc' = [wpc EXCEPT ![w] = "request"]
    /\ logEntries' = lookup(w).logEntries
    /\ accessLog' = lookup(w).accessLog
    /\ dispatched' = IF pure THEN dispatched + 1 ELSE 0
    /\ UNCHANGED <<cfgVars, obsVars, issued, counterVars, players, once, waitingError,
                   notRunning, sigVars, feed, ctl, stopD, closeD, feedOpen,
                   callerVars, calls, session, terminal, pure, consecErr,
                   consecSrv, failsSinceOk, srvSinceOk, looped>>

\* a send on a reply channel that was closed: the process panics
FeedPanic(w) ==
    /\ Offered(w)
    /\ \/ lookup(w).err = Nil
       \/ /\ lookup(w).err = EOF
          /\ eofBranch(once, position[w], Len(players)) = "reset"
    /\ ~feedOpen[w]
    /\ ctl' = "panic"
    /\ logEntries' = lookup(w).logEntries
    /\ accessLog' = lookup(w).accessLog
    /\ UNCHANGED <<cfgVars, obsVars, counterVars, players, once, waitingError,
                   notRunning, sigVars, feed, stopD, closeD, workerVars,
                   callerVars, calls, session, histVars>>

\* faulty variant: a failed read moves the worker past the entry
FeedReadErrorAdvances(w) ==
    /\ Offered(w)
    /\ lookup(w).err \notin {Nil, EOF}
    /\ LET ce == checkError(lookup(w).err, errors, serverErrors) IN
        /\ ce.err = Nil
        /\ errors' = ce.errors
        /\ serverErrors' = ce.serverErrors
    /\ failsSinceOk' = failsSinceOk + 1
    /\ pure' = FALSE
    /\ dispatched' = 0
    /\ logEntries' = lookup(w).logEntries
    /\ accessLog' = lookup(w).accessLog
    /\ position' = [position EXCEPT ![w] = @ + 1]
    /\ UNCHANGED <<cfgVars, obsVars, players, once, waitingError, notRunning, sigVars,
                   feed, ctl, stopD, closeD, wpc, feedOpen, last, issued,
                   callerVars, calls, session, terminal, consecErr, consecSrv,
                   srvSinceOk, looped>>

\* the log reader failed, checkHalt(err) false: no reply, the worker offers again
FeedReadError(w) ==
    /\ Offered(w)
    /\ lookup(w).err \notin {Nil, EOF}
    /\ LET ce == checkError(lookup(w).err, errors, serverErrors) IN
        /\ ce.err = Nil
        /\ errors' = ce.errors
        /\ serverErrors' = ce.serverErrors
    /\ failsSinceOk' = failsSinceOk + 1
    /\ pure' = FALSE
    /\ dispatched' = 0
    /\ logEntries' = lookup(w).logEntries
    /\ accessLog' = lookup(w).accessLog
    /\ UNCHANGED <<cfgVars, obsVars, players, once, waitingError, notRunning, sigVars,
                   feed, ctl, stopD, closeD, workerVars, callerVars, calls,
                   session, terminal, consecErr, consecSrv, srvSinceOk, looped>>

\* the log reader failed, checkHalt(err) true: p.stop(err)
FeedReadHalt(w) ==
    /\ Offered(w)
    /\ lookup(w).err \notin {Nil, EOF}
    /\ LET ce == checkError(lookup(w).err, errors, serverErrors) IN
        /\ ce.err # Nil
        /\ stop(ce.err, players, feedOpen, ce.errors, ce.serverErrors)
    /\ failsSinceOk' = failsSinceOk + 1
    /\ pure' = FALSE
    /\ dispatched' = 0
    /\ logEntries' = lookup(w).logEntries
    /\ accessLog' = lookup(w).accessLog
    /\ UNCHANGED <<cfgVars, obsVars, issued, once, waitingError, notRunning, sigVars, feed,
                   stopD, closeD, wpc, position, last, op, calls, session,
                   consecErr, consecSrv, srvSinceOk, looped>>

CtlFeed(w) ==
    \/ FeedDrop(w)
    \/ FeedEnd(w)
    \/ FeedNoRequests(w)
    \/ FeedReset(w)
    \/ FeedSend(w)
    \/ FeedPanic(w)
    \/ FeedReadError(w)
    \/ FeedReadHalt(w)

\* ------------------------------------------------------------ specification
Next ==
    \/ \E c \in Callers, o \in {"Play", "Once"} : CallStart(c, o)
    \/ \E c \in Callers, o \in {"Play", "Once"} : CallJoin(c, o)
    \/ \E c \in Callers : SendPlay(c)
    \/ \E c \in Callers : SendOnce(c)
    \/ \E c \in Callers : CallPause(c)
    \/ \E c \in Callers : CallStop(c)
    \/ CtlPlay
    \/ CtlOnce
    \/ CtlPause
    \/ CtlStop
    \/ \E w \in Workers, res \in Outcomes : CtlResult(w, res)
    \/ \E w \in Workers : CtlFeed(w)
    \/ ReturnToken
    \/ \E c \in Callers : CloseDone(c)
    \/ \E w \in Workers : WorkerExit(w)
    \/ \E w \in Workers : Issue(w)

Spec == Init /\ [][Next]_vars

\* configurations with a log one entry longer than MaxLog, replayed by all
\* workers, and the empty scenarios
LogConfigs ==
    [Requests : {Prefix(MaxCustom, CustomRequest)},
     AccessLog : [present : {TRUE},
                  entries : {Prefix(MaxLog + 1, LogEntry)},
                  fails : BOOLEAN],
     ConcurrentSessions : {MaxWorkers},
     HaltOn500 : {FALSE},
     HaltThreshold : {MaxThreshold}]
    \cup {o \in Configs :
            /\ o.ConcurrentSessions = 1
            /\ o.Requests = <<>> /\ o.AccessLog.entries = <<>>
            /\ o.HaltOn500 /\ o.HaltThreshold = 1}

InitLog ==
    /\ cl = NoClient
    /\ nr = NoServe
    /\ budget = MaxCalls
    /\ body = NoBody /\ thr = NoThrottle /\ np = NoPlayer
    /\ \E o \in LogConfigs : New(o)

SpecLog == InitLog /\ [][Next]_vars

SpecResume == InitResume /\ [][Next]_vars

\* ------------------------------------------- client.createHTTPRequest
\* a player that is not used while a request is built or a worker throttled
PlainOptions ==
    [Requests |-> <<>>,
     AccessLog |-> [present |-> FALSE, entries |-> <<>>, fails |-> FALSE],
     ConcurrentSessions |-> 1, HaltOn500 |-> FALSE, HaltThreshold |-> 0]

\* di := int(float64(i) * d), with d = q / DevUnits
deviation(i, q) == (i * q) \div DevUnits

\* rand.Intn(n): the values it may return; it panics when n <= 0
Intn(n) == 0..(n - 1)

\* deviate(i, d), r being the value rand.Intn(2*di) returned
deviate(i, q, r) == i + r - deviation(i, q)

\* deviateMin(i, d)
deviateMin(i, q, r) == IF deviate(i, q, r) < 0 THEN 0 ELSE deviate(i, q, r)

\* hasContent := r.ContentLength > 0 || r.ContentLengthDeviation > 0
hasContent(L, q) == L > 0 \/ q > 0

\* no content: the request is built with a nil body
BuildPlain ==
    /\ body.stage = "input"
    /\ ~hasContent(body.L, body.q)
    /\ body' = [body EXCEPT !.stage = "built", !.B = 0]
    /\ UNCHANGED <<playerVars, thr, np, nr, cl>>

\* content: contentLength = deviateMin(...), the body has that many bytes
BuildContent ==
    /\ body.stage = "input"
    /\ hasContent(body.L, body.q)
    /\ \E r \in Intn(2 * deviation(body.L, body.q)) :
          body' = [body EXCEPT !.stage = "built",
                               !.B = deviateMin(body.L, body.q, r)]
    /\ UNCHANGED <<playerVars, thr, np, nr, cl>>

\* content, and rand.Intn is called with 0: it panics
BuildPanic ==
    /\ body.stage = "input"
    /\ hasContent(body.L, body.q)
    /\ 2 * deviation(body.L, body.q) <= 0
    /\ body' = [body EXCEPT !.stage = "panic"]
    /\ UNCHANGED <<playerVars, thr, np, nr, cl>>

InitBody ==
    /\ cl = NoClient
    /\ nr = NoServe
    /\ budget = 0
    /\ thr = NoThrottle /\ np = NoPlayer
    /\ body \in [stage : {"input"}, L : 0..MaxLength, q : 0..MaxDevSteps, B : {0}]
    /\ New(PlainOptions)

NextBody == BuildPlain \/ BuildContent \/ BuildPanic

SpecBody == InitBody /\ [][NextBody]_vars

\* ----------------------------------------------------------- player.throttle
\* t.m is p.maxRequestDuration, t.elapsed the worker's clock, t.slept the time
\* it spent in time.Sleep, t.n the requests it completed; dur is the time f()
\* took
\* faulty variant: the lag is forgiven when the request was faster than m
throttleResetsOnFast(t, dur) ==
    IF t.m <= 0
        THEN [t EXCEPT !.elapsed = @ + dur, !.n = @ + 1]
    ELSE LET throttle == t.m - dur
             negativeLag == t.throttleLag < 0
             lag == IF negativeLag /\ throttle > 0
                        THEN 0 ELSE t.throttleLag + throttle
             sleep == IF lag > 0 THEN lag ELSE 0
         IN  [t EXCEPT !.throttleLag = IF lag > 0 THEN 0 ELSE lag,
                       !.elapsed = @ + dur + sleep,
                       !.slept = @ + sleep,
                       !.n = @ + 1]

\* faulty variant: a negative lag is never reset, the debt accumulates
throttleAccumulates(t, dur) ==
    IF t.m <= 0
        THEN [t EXCEPT !.elapsed = @ + dur, !.n = @ + 1]
    ELSE LET throttle == t.m - dur
             lag == t.throttleLag + throttle
             sleep == IF lag > 0 THEN lag ELSE 0
         IN  [t EXCEPT !.throttleLag = IF lag > 0 THEN 0 ELSE lag,
                       !.elapsed = @ + dur + sleep,
                       !.slept = @ + sleep,
                       !.n = @ + 1]

throttle(t, dur) ==
    IF t.m <= 0
        THEN [t EXCEPT !.elapsed = @ + dur, !.n = @ + 1]
    ELSE LET throttle == t.m - dur
             negativeLag == t.throttleLag < 0
             lag == IF negativeLag /\ throttle < 0
                        THEN 0 ELSE t.throttleLag + throttle
             sleep == IF lag > 0 THEN lag ELSE 0
         IN  [t EXCEPT !.throttleLag = IF lag > 0 THEN 0 ELSE lag,
                       !.elapsed = @ + dur + sleep,
                       !.slept = @ + sleep,
                       !.n = @ + 1]

\* one more request of the worker: p.results <- p.throttle(...)
Throttled ==
    /\ thr.n < MaxRequests
    /\ \E dur \in 0..MaxDuration : thr' = throttle(thr, dur)
    /\ UNCHANGED <<playerVars, body, np, nr, cl>>

InitThrottle ==
    /\ cl = NoClient
    /\ nr = NoServe
    /\ budget = 0
    /\ body = NoBody /\ np = NoPlayer
    /\ thr \in [m : 0..MaxPeriod, throttleLag : {0}, elapsed : {0},
                slept : {0}, n : {0}]
    /\ New(PlainOptions)

NextThrottle == Throttled

SpecThrottle == InitThrottle /\ [][NextThrottle]_vars

\* ---------------------------------------------------------------- newPlayer
\* np.T is Options.Throttle in steps of 1/RateUnits, np.N the number of
\* workers, np.num / np.den the Throttle option a worker is created with,
\* np.m its maxRequestDuration

\* Player.run: o.Throttle = p.options.Throttle / float64(ConcurrentSessions)
RunThrottle ==
    /\ np.stage = "options"
    /\ np' = [np EXCEPT !.stage = "divided",
                        !.num = np.T, !.den = RateUnits * np.N]
    /\ UNCHANGED <<playerVars, body, thr, nr, cl>>

\* time.Duration(o.Throttle): the conversion drops the fraction
requestsPerSecond(num, den) == num \div den

\* newPlayer: Throttle <= 0 leaves the period 0; otherwise time.Second is
\* divided by the converted rate
NewPlayer ==
    /\ np.stage = "divided"
    /\ np.num > 0 => requestsPerSecond(np.num, np.den) # 0
    /\ np' = [np EXCEPT !.stage = "new",
                        !.m = IF np.num > 0
                                  THEN Second \div requestsPerSecond(np.num, np.den)
                                  ELSE 0]
    /\ UNCHANGED <<playerVars, body, thr, nr, cl>>

\* newPlayer: the converted rate is 0, the integer division panics
NewPlayerPanic ==
    /\ np.stage = "divided"
    /\ np.num > 0
    /\ requestsPerSecond(np.num, np.den) = 0
    /\ np' = [np EXCEPT !.stage = "panic"]
    /\ UNCHANGED <<playerVars, body, thr, nr, cl>>

InitRate ==
    /\ cl = NoClient
    /\ nr = NoServe
    /\ budget = 0
    /\ body = NoBody /\ thr = NoThrottle
    /\ np \in [stage : {"options"}, T : 0..MaxRate, N : 1..MaxSessions,
               num : {0}, den : {1}, m : {0}]
    /\ New(PlainOptions)

NextRate == RunThrottle \/ NewPlayer \/ NewPlayerPanic

SpecRate == InitRate /\ [][NextRate]_vars

\* ------------------------------------------------- Player.contentSettings
\* nr.post holds Options.PostContentLength, PostContentLengthDeviation (in
\* steps of 1/DevUnits) and PostSetContentLength; nr.log the descriptors the
\* reader parses, nr.custom Options.Requests, nr.logEntries the memoized
\* prefix, nr.open whether p.accessLog is set; nr.out is the descriptor
\* returned last, nr.from and nr.idx where it came from
PostMethods == {"POST", "PUT", "PATCH"}
Methods == PostMethods \cup {"GET"}

Descriptors ==
    [Method : Methods, ContentLength : 0..1, ContentLengthDeviation : {0},
     SetContentLength : {FALSE}]

PostSettings == [L : {0, MaxPost}, q : {1}, set : BOOLEAN]

\* faulty variant: only POST descriptors get the content settings
contentSettingsPostOnly(r, post) ==
    IF r.Method # "POST" THEN r
    ELSE [r EXCEPT !.ContentLength = post.L,
                   !.ContentLengthDeviation = post.q,
                   !.SetContentLength = post.set]

\* Player.contentSettings(r)
contentSettings(r, post) ==
    IF r.Method \notin PostMethods THEN r
    ELSE [r EXCEPT !.ContentLength = post.L,
                   !.ContentLengthDeviation = post.q,
                   !.SetContentLength = post.set]

\* nextRequest, position < len(p.logEntries): the memoized entry gets the
\* content settings in place and is returned
ServeMemo ==
    /\ nr.stage = "serve"
    /\ nr.position < Len(nr.logEntries)
    /\ LET r == contentSettings(nr.logEntries[nr.position + 1], nr.post)
       IN nr' = [nr EXCEPT !.logEntries[nr.position + 1] = r,
                           !.out = r, !.from = "memo",
                           !.idx = nr.position + 1,
                           !.position = nr.position + 1]
    /\ UNCHANGED <<playerVars, body, thr, np, cl>>

\* nextRequest, the reader returns an entry: it is appended to the memoized
\* prefix, gets the content settings and is returned
ServeRead ==
    /\ nr.stage = "serve"
    /\ nr.position >= Len(nr.logEntries)
    /\ nr.open
    /\ Len(nr.logEntries) < Len(nr.log)
    /\ LET r == contentSettings(nr.log[Len(nr.logEntries) + 1], nr.post)
       IN nr' = [nr EXCEPT !.logEntries = Append(nr.logEntries, r),
                           !.out = r, !.from = "read",
                           !.idx = Len(nr.logEntries) + 1,
                           !.position = nr.position + 1]
    /\ UNCHANGED <<playerVars, body, thr, np, cl>>

\* nextRequest, the reader is gone or ends in this call: a user-supplied
\* Request is returned as it is
ServeCustom ==
    /\ nr.stage = "serve"
    /\ nr.position >= Len(nr.logEntries)
    /\ nr.open => Len(nr.logEntries) = Len(nr.log)
    /\ nr.position - Len(nr.logEntries) < Len(nr.custom)
    /\ nr' = [nr EXCEPT !.open = FALSE,
                        !.out = nr.custom[nr.position - Len(nr.logEntries) + 1],
                        !.from = "custom",
                        !.idx = nr.position - Len(nr.logEntries) + 1,
                        !.position = nr.position + 1]
    /\ UNCHANGED <<playerVars, body, thr, np, cl>>

\* nextRequest returns io.EOF: the cursor starts the next pass at 0
ServeEnd ==
    /\ nr.stage = "serve"
    /\ nr.position >= Len(nr.logEntries)
    /\ nr.open => Len(nr.logEntries) = Len(nr.log)
    /\ nr.position - Len(nr.logEntries) >= Len(nr.custom)
    /\ nr.passes < MaxPasses
    /\ nr' = [nr EXCEPT !.open = FALSE, !.from = "none", !.idx = 0,
                        !.position = 0, !.passes = nr.passes + 1]
    /\ UNCHANGED <<playerVars, body, thr, np, cl>>

InitContent ==
    /\ cl = NoClient
    /\ budget = 0
    /\ body = NoBody /\ thr = NoThrottle /\ np = NoPlayer
    /\ \E post \in PostSettings, d1, d2, c \in Descriptors, n \in 0..MaxCustom :
          nr = [stage |-> "serve", post |-> post, log |-> <<d1, d2>>,
                custom |-> IF n = 0 THEN <<>> ELSE <<c>>,
                logEntries |-> <<>>, open |-> TRUE, position |-> 0,
                out |-> d1, from |-> "none", idx |-> 0, passes |-> 0]
    /\ New(PlainOptions)

NextContent == ServeMemo \/ ServeRead \/ ServeCustom \/ ServeEnd

SpecContent == InitContent /\ [][NextContent]_vars

\* ------------------------------------------------------------------ client
\* cl.RedirectBehavior and cl.Server are the client's options; cl.Host is the
\* Host header of the request being made, cl.rp the URL hosts of the requests
\* made for it so far, oldest first; cl.sent tells whether the round trip gave
\* a response, cl.status is its status and cl.target the host it redirects to;
\* cl.res is what client.do returned last, cl.readFailed whether reading the
\* body failed; cl.errors, cl.serverErrors and cl.halt are the counters and
\* the return value of checkError, cl.was the counters before it, cl.fails
\* the results other than nil since the last nil, cl.n the requests made
NoFollow == "NoFollow"
FollowSameHost == "FollowSameHost"
FollowRedirect == "FollowRedirect"

Hosts == {"a", "b"}

\* the statuses the servers answer with; 302 carries a redirect target
Statuses == {200, 302, 404, 500, 503}

\* createHTTPRequest: the host of the request URL
urlHost(server, host) ==
    IF server # "" THEN server ELSE IF host = "" THEN "localhost" ELSE host

\* createHTTPRequest: hr.Host
hostHeader(server, host) ==
    IF host # "" THEN host ELSE IF server # "" THEN server ELSE "localhost"

\* faulty variant: FollowSameHost follows to any host
checkRedirectAnyHost(behavior, rn, rp) ==
    CASE behavior = FollowSameHost -> TRUE
      [] behavior = FollowRedirect -> TRUE
      [] OTHER -> FALSE

\* client.checkRedirect(rn, rp): TRUE for nil (follow), FALSE for
\* http.ErrUseLastResponse
checkRedirect(behavior, rn, rp) ==
    CASE behavior = FollowSameHost -> ~(rn # rp[1])
      [] behavior = FollowRedirect -> TRUE
      [] OTHER -> FALSE

\* faulty variant: client errors count as server errors
doClientError(sent, status, read) ==
    IF ~sent THEN TransportError
    ELSE IF status >= 400 THEN ErrServerError
    ELSE IF ~read THEN TransportError
    ELSE Nil

\* client.do, after the request was created: sent is whether httpClient.Do
\* returned a response, read whether its body could be read
do(sent, status, read) ==
    IF ~sent THEN TransportError
    ELSE IF status >= StatusInternalServerError THEN ErrServerError
    ELSE IF ~read THEN TransportError
    ELSE Nil

\* createHTTPRequest for the next Request
ClientCreate ==
    /\ cl.stage = "start"
    /\ \E h \in Hosts \cup {""} :
          cl' = [cl EXCEPT !.stage = "send",
                           !.Host = hostHeader(cl.Server, h),
                           !.rp = <<urlHost(cl.Server, h)>>]
    /\ UNCHANGED <<playerVars, body, thr, np, nr>>

\* httpClient.Do: the round trip fails
ClientTransportFails ==
    /\ cl.stage = "send"
    /\ cl' = [cl EXCEPT !.stage = "final", !.sent = FALSE, !.status = 0]
    /\ UNCHANGED <<playerVars, body, thr, np, nr>>

\* httpClient.Do: the round trip gives a response
ClientResponse ==
    /\ cl.stage = "send"
    /\ \E st \in Statuses, t \in Hosts \cup {"localhost"} :
          /\ st = 302 => Len(cl.rp) <= MaxHops
          /\ cl' = [cl EXCEPT !.stage = IF st = 302 THEN "redirect" ELSE "final",
                              !.sent = TRUE, !.status = st,
                              !.target = IF st = 302 THEN t ELSE ""]
    /\ UNCHANGED <<playerVars, body, thr, np, nr>>

\* httpClient.Do on a redirect response: CheckRedirect decides
ClientRedirect ==
    /\ cl.stage = "redirect"
    /\ cl' = IF checkRedirect(cl.RedirectBehavior, cl.target, cl.rp)
             THEN [cl EXCEPT !.stage = "send", !.rp = Append(cl.rp, cl.target)]
             ELSE [cl EXCEPT !.stage = "final"]
    /\ UNCHANGED <<playerVars, body, thr, np, nr>>

\* client.do returns and the driver accounts for the result in checkError
ClientDone ==
    /\ cl.stage = "final"
    /\ \E read \in BOOLEAN :
          /\ ~read => cl.sent /\ cl.status < StatusInternalServerError
          /\ LET res == do(cl.sent, cl.status, read)
                 chk == checkError(res, cl.errors, cl.serverErrors)
             IN cl' = [cl EXCEPT !.stage = IF chk.err # Nil THEN "halted"
                                           ELSE IF cl.n + 1 = MaxDo THEN "end"
                                           ELSE "start",
                                 !.res = res, !.readFailed = ~read,
                                 !.was = [errors |-> cl.errors,
                                          serverErrors |-> cl.serverErrors],
                                 !.errors = chk.errors,
                                 !.serverErrors = chk.serverErrors,
                                 !.halt = chk.err,
                                 !.fails = IF res = Nil THEN 0 ELSE cl.fails + 1,
                                 !.n = cl.n + 1]
    /\ UNCHANGED <<playerVars, body, thr, np, nr>>

InitClient ==
    /\ budget = 0
    /\ body = NoBody /\ thr = NoThrottle /\ np = NoPlayer /\ nr = NoServe
    /\ \E b \in {NoFollow, FollowSameHost, FollowRedirect},
          srv \in Hosts \cup {""} :
          cl = [stage |-> "start", RedirectBehavior |-> b, Server |-> srv,
                Host |-> "", rp |-> <<>>, sent |-> FALSE, status |-> 0,
                target |-> "", res |-> Nil, readFailed |-> FALSE,
                was |-> [errors |-> 0, serverErrors |-> 0],
                errors |-> 0, serverErrors |-> 0, halt |-> Nil, fails |-> 0,
                n |-> 0]
    /\ \E h \in BOOLEAN, t \in 1..MaxThreshold :
          New([PlainOptions EXCEPT !.HaltOn500 = h, !.HaltThreshold = t])

NextClient ==
    \/ ClientCreate
    \/ ClientTransportFails
    \/ ClientResponse
    \/ ClientRedirect
    \/ ClientDone

SpecClient == InitClient /\ [][NextClient]_vars

\* ---------------------------------------------------------------- claims
Ended == session > 0 /\ ctl \in {"token", "idle"}

\* C1: a session that processed only Once signals and whose requests all
\* succeeded ends after exactly N * k dispatches, every worker having
\* received all k descriptors, and releases its callers with nil.
C1_OnceDispatchesAll ==
    (Ended /\ pure) =>
        /\ dispatched = options.ConcurrentSessions * Len(Scenario)
        /\ \A w \in Workers : position[w] = Len(Scenario)
        /\ terminal = Nil
        /\ \A c \in Range(waitingError) : cpc[c] = "idle" => ret[c] = Nil

C1_Witness ==
    /\ Ended /\ pure
    /\ options.ConcurrentSessions = 2
    /\ Len(Scenario) = 2
    /\ dispatched = 4
    /\ \E c \in Callers : op[c] = "Once" /\ cpc[c] = "idle" /\ ret[c] = Nil

\* C2: a worker at position i > 0 has received, as its latest descriptor,
\* element i of the scenario (log entries, then the user-supplied requests).
C2_ScenarioOrder ==
    \A w \in Workers :
        (wpc[w] = "request" \/ (position[w] > 0 /\ last[w] # 0)) =>
            /\ position[w] \in 1..Len(Scenario)
            /\ last[w] = Scenario[position[w]]

C2_Witness ==
    /\ options.ConcurrentSessions = 2
    /\ Len(LogInput) = 1 /\ Len(customRequests) = 1
    /\ wpc[1] = "request" /\ position[1] = 2 /\ last[1] = CustomRequest(1)
    /\ wpc[2] = "request" /\ position[2] = 1 /\ last[2] = LogEntry(1)

\* C3: the step that ends a session hands every caller on the waiter list the
\* session's terminal value, once, and hands nothing to any other caller.
C3_WaitersReleased ==
    [][(ctl = "select" /\ ctl' = "token") =>
        /\ \A c \in Range(waitingError) :
              cpc[c] = "wait" /\ cpc'[c] = "idle" /\ ret'[c] = terminal'
        /\ \A i, j \in 1..Len(waitingError) :
              waitingError[i] = waitingError[j] => i = j
        /\ \A c \in Callers \ Range(waitingError) :
              cpc'[c] = cpc[c] /\ ret'[c] = ret[c]]_vars

C3_Witness ==
    /\ ctl = "token"
    /\ Len(waitingError) = 2
    /\ terminal = ErrRequestError
    /\ \A c \in Range(waitingError) : cpc[c] = "idle" /\ ret[c] = ErrRequestError

\* C4: once HaltThreshold TransportError results have been received with no
\* ok result in between, the session has ended with ErrRequestError and its
\* waiters hold that value; a TransportError result that leaves the counter
\* below the threshold leaves the driver running.
C4_RequestErrorHalt ==
    [][/\ (options.HaltThreshold >= 1 /\ consecErr' >= options.HaltThreshold) =>
            /\ ctl' \in {"token", "idle"}
            /\ terminal' = ErrRequestError
       /\ (ctl = "select" /\ ctl' = "token" /\ consecErr' > consecErr
                /\ consecErr' >= options.HaltThreshold) =>
            \A c \in Range(waitingError) : ret'[c] = ErrRequestError
       /\ (ctl = "select" /\ consecErr' > consecErr
                /\ errors + 1 < options.HaltThreshold) =>
            ctl' = "select"]_vars

C4_Witness ==
    /\ once
    /\ ctl = "token"
    /\ options.HaltThreshold = 2
    /\ consecErr = 2
    /\ terminal = ErrRequestError
    /\ \E c \in Callers : op[c] = "Once" /\ cpc[c] = "idle" /\ ret[c] = ErrRequestError

\* C5: with HaltOn500, once HaltThreshold ServerError results have been
\* received with no ok result in between, the session has ended with
\* ErrServerError; without HaltOn500 a ServerError result leaves the driver
\* running and no session or caller ever gets ErrServerError.
C5_ServerErrorHalt ==
    [][/\ (options.HaltOn500 /\ options.HaltThreshold >= 1
                /\ consecSrv' >= options.HaltThreshold) =>
            /\ ctl' \in {"token", "idle"}
            /\ terminal' = ErrServerError
       /\ ~options.HaltOn500 =>
            /\ terminal' # ErrServerError
            /\ \A c \in Callers : ret'[c] # ErrServerError
       /\ (~options.HaltOn500 /\ ctl = "select" /\ consecSrv' > consecSrv) =>
            ctl' = "select"]_vars

C5_Witness ==
    /\ options.HaltOn500
    /\ options.HaltThreshold = 2
    /\ consecSrv = 2
    /\ ctl = "token"
    /\ terminal = ErrServerError
    /\ \E c \in Callers : cpc[c] = "idle" /\ ret[c] = ErrServerError

\* C6: the receipt of an ok result leaves both counters at zero, and a
\* session ends with ErrRequestError (ErrServerError) only when at least
\* HaltThreshold failures of that class came after the last ok result.
C6_OkResets ==
    [][/\ (ctl = "select" /\ session' = session
                /\ (\E w \in Workers : wpc[w] = "request" /\ wpc'[w] = "select")
                /\ consecErr' = 0 /\ consecSrv' = 0) =>
            (errors' = 0 /\ serverErrors' = 0)
       /\ terminal' = ErrRequestError => failsSinceOk' >= options.HaltThreshold
       /\ terminal' = ErrServerError => srvSinceOk' >= options.HaltThreshold]_vars

\* one Once call, one worker: the first request failed, the second succeeded
C6_Witness ==
    /\ calls = 1 /\ session = 1
    /\ options.ConcurrentSessions = 1
    /\ options.HaltThreshold = 2
    /\ ~pure
    /\ once
    /\ ctl = "select"
    /\ wpc[1] = "select" /\ position[1] = 2
    /\ errors = 0 /\ serverErrors = 0

\* C7: with HaltThreshold left at zero a session ends with ErrRequestError or
\* ErrServerError only after 128 failures with no ok result in between.
C7_DefaultThreshold ==
    (options.HaltThreshold = 0 /\ terminal \in {ErrRequestError, ErrServerError}) =>
        (failsSinceOk >= defaultHaltThreshold \/ srvSinceOk >= defaultHaltThreshold)

\* the scenario is empty: no user request, and no log or a log that ends
\* without an entry
EmptyScenario == Len(Scenario) = 0 /\ ~options.AccessLog.fails

\* C8: with an empty scenario no descriptor and no reset sentinel is ever
\* handed out, and a session that ends in loop mode without a Stop ends with
\* ErrNoRequests.
C8_NoRequests ==
    EmptyScenario =>
        /\ \A w \in Workers : wpc[w] # "request" /\ last[w] = 0 /\ position[w] = 0
        /\ ~looped
        /\ (ctl = "token" /\ stopD = 0 /\ ~once) => terminal = ErrNoRequests

C8_Witness ==
    /\ EmptyScenario
    /\ options.AccessLog.present
    /\ ctl = "token"
    /\ terminal = ErrNoRequests
    /\ \E c \in Callers : op[c] = "Play" /\ cpc[c] = "idle" /\ ret[c] = ErrNoRequests

\* C9: when Stop returns, and no later session has been started, every
\* worker's reply channel is closed, the list of live workers is empty and
\* the token is in the latch.
C9_StopClosesAll ==
    [][\A e \in closeD :
        (e \notin closeD' /\ session' = e[2]) =>
            /\ players' = <<>>
            /\ \A w \in Workers : ~feedOpen'[w]
            /\ notRunning' = 1]_vars

\* the steps a worker goroutine takes part in
WorkerStep(w) ==
    \/ WorkerExit(w)
    \/ Issue(w)
    \/ CtlFeed(w)
    \/ \E res \in Outcomes : CtlResult(w, res)

\* C10: after the session has ended no worker is left blocked: each has
\* exited or can take a step.
C10_WorkersExit ==
    Ended => \A w \in Workers : wpc[w] = "exited" \/ ENABLED WorkerStep(w)

\* C11: once Stop has returned, and while no later session has been started,
\* no worker of the stopped session calls the client.
C11_NoRequestAfterStop ==
    [][(stopReturned = session /\ session' = session) =>
        \A w \in Workers : issued'[w] => issued[w]]_vars

\* C12: the step in which the driver handles a Stop signal ends the session
\* with the value nil and hands nil to every caller on the waiter list.
C12_StopReleasesNil ==
    [][(ctl = "select" /\ signalStop # <<>> /\ signalStop' = <<>>) =>
        /\ ctl' = "token"
        /\ terminal' = Nil
        /\ \A c \in Range(waitingError) :
              cpc[c] = "wait" /\ cpc'[c] = "idle" /\ ret'[c] = Nil]_vars

\* a running session with one failure below the threshold was stopped
C12_Witness ==
    /\ ctl = "token" /\ stopD # 0
    /\ feed
    /\ options.HaltThreshold = 2 /\ failsSinceOk = 1
    /\ terminal = Nil
    /\ \E c \in Range(waitingError) : op[c] = "Play" /\ cpc[c] = "idle" /\ ret[c] = Nil

\* every step of the program that is not a new API call
Internal ==
    \/ \E c \in Callers : SendPlay(c) \/ SendOnce(c) \/ CloseDone(c)
    \/ CtlPlay \/ CtlOnce \/ CtlPause \/ CtlStop \/ ReturnToken
    \/ \E w \in Workers : WorkerStep(w)

\* C13: a Stop call made while the driver was in its select loop does not stay
\* unanswered: as long as its caller waits, the program can still take a
\* step (a state without one is a state in which Stop never returns).
C13_StopReturns ==
    \A c \in Callers :
        (op[c] = "Stop" /\ cpc[c] = "wait" /\ attach[c] > 0) => ENABLED Internal

\* C14: the step that handles a Pause signal turns the feed off and releases
\* the Pause caller without touching any worker; while the feed is off no
\* offer is handled (no descriptor handed out, no log entry read, no worker
\* dropped or reset), a result of a request in flight can still be received,
\* and only a Play or Once signal turns the feed on again.
C14_PauseStopsFeeding ==
    [][/\ (ctl = "select" /\ signalPause # <<>> /\ signalPause' = <<>>) =>
            /\ ~feed'
            /\ cpc'[Head(signalPause)] = "idle"
            /\ ret'[Head(signalPause)] = "returned"
            /\ workerVars' = workerVars
       /\ (ctl = "select" /\ ~feed) =>
            /\ position' = position /\ last' = last
            /\ \A w \in Workers : wpc'[w] = "request" => wpc[w] = "request"
            /\ scenarioVars' = scenarioVars
            /\ looped' = looped
            /\ \A w \in Workers :
                  (wpc[w] = "request" /\ issued[w]) => ENABLED CtlResult(w, Nil)
       /\ (ctl = "select" /\ ~feed /\ feed') =>
            \/ signalPlay # <<>> /\ signalPlay' = <<>>
            \/ signalOnce # <<>> /\ signalOnce' = <<>>]_vars

\* Pause has returned while a request of worker 1 is in flight
C14_Witness ==
    /\ ctl = "select" /\ ~feed /\ pauses = 1
    /\ \E c \in Callers : op[c] = "Pause" /\ cpc[c] = "idle" /\ ret[c] = "returned"
    /\ wpc[1] = "request" /\ issued[1] /\ position[1] = 1

\* C15: handling a Pause, Play or Once signal changes no worker's position,
\* and whenever a worker is handed a descriptor, before or after a pause, its
\* position advances by one and the descriptor is the scenario element at
\* the new position: nothing is handed out twice and nothing is skipped. A
\* position goes back to 0 only at the end of the scenario, in loop mode.
C15_ResumeInPlace ==
    [][/\ (ctl = "select" /\ session' = session /\ ctl' = "select"
                /\ (signalPause' # signalPause \/ signalPlay' # signalPlay
                        \/ signalOnce' # signalOnce)) =>
            position' = position /\ last' = last /\ wpc' = wpc
       /\ \A w \in Workers :
            (session' = session /\ wpc[w] # "request" /\ wpc'[w] = "request") =>
                /\ position'[w] = position[w] + 1
                /\ last'[w] = Scenario[position'[w]]
       /\ \A w \in Workers :
            (session' = session /\ position'[w] # position[w]) =>
                \/ position'[w] = position[w] + 1
                \/ position'[w] = 0 /\ position[w] = Len(Scenario) /\ ~once]_vars

\* worker 1 was at position 1 at the Pause and, after the resume, holds the
\* second descriptor of the scenario
C15_Witness ==
    /\ pauses = 2
    /\ atPause[1] = 1
    /\ wpc[1] = "request" /\ position[1] = 2 /\ last[1] = Scenario[2]

\* C16: the number of drivers that were started and have not returned the
\* token is at most one, and is one exactly when the latch is empty; a session
\* starts only in a step that takes the token out of the latch, and the token
\* goes back only in a step of the one active driver, which ends it.
C16_OneDriver ==
    [][/\ drivers' \in {0, 1} /\ notRunning' \in {0, 1}
       /\ drivers' + notRunning' = 1
       /\ (drivers' = 1) = (ctl' # "idle")
       /\ session' # session =>
            notRunning = 1 /\ notRunning' = 0 /\ drivers = 0 /\ drivers' = 1
       /\ notRunning' > notRunning =>
            ctl = "token" /\ ctl' = "idle" /\ drivers = 1 /\ drivers' = 0]_vars

\* a second session is running, started while a caller of the first one
\* had not yet sent its signal
C16_Witness ==
    /\ session = 2 /\ ctl = "select" /\ drivers = 1 /\ notRunning = 0
    /\ \E c \in Callers : cpc[c] = "send"

\* C17: when a session has ended (the token is back in the latch) and the
\* program has come to rest, every Play or Once caller that found that
\* session running has returned, with the session's terminal value.
C17_JoinersReleased ==
    \A c \in Callers :
        (op[c] \in {"Play", "Once"} /\ attach[c] > 0 /\ attach[c] = session
                /\ ctl = "idle" /\ ~ENABLED Internal) =>
            cpc[c] = "idle" /\ ret[c] = terminal

\* C18: once Stop has returned the token is in the latch, so that the next
\* Play or Once starts a session; the step that starts it creates all N
\* workers at position 0 with open reply channels, and in that session every
\* descriptor handed out is the scenario element at the worker's new
\* position, the first one being the first element of the scenario.
C18_RestartFromFirst ==
    [][/\ (stopReturned' = session' /\ session' > 0) =>
            notRunning' = 1 /\ ctl' = "idle"
       /\ (stopReturned = session /\ session' = session + 1) =>
            /\ ctl' = "select"
            /\ players' = [i \in 1..options.ConcurrentSessions |-> i]
            /\ \A w \in Workers :
                  position'[w] = 0 /\ wpc'[w] = "select" /\ feedOpen'[w]
       /\ \A w \in Workers :
            (stopReturned > 0 /\ session > stopReturned /\ session' = session
                    /\ wpc[w] # "request" /\ wpc'[w] = "request") =>
                /\ position'[w] = position[w] + 1
                /\ last'[w] = Scenario[position'[w]]
                /\ position[w] = 0 => last'[w] = Scenario[1]]_vars

\* the session started after a Stop has handed worker 2 the first element of
\* the scenario and worker 1 the second
C18_Witness ==
    /\ session = 2 /\ stopReturned = 1
    /\ Len(LogInput) = 1 /\ Len(customRequests) = 1
    /\ wpc[1] = "request" /\ position[1] = 2 /\ last[1] = CustomRequest(1)
    /\ wpc[2] = "request" /\ position[2] = 1 /\ last[2] = LogEntry(1)

\* C19: for a descriptor that gets a body, building the request ends with a
\* request whose body size B is within round(L*d) of L and not below 0, and
\* is L when the deviation is 0 (d = q / DevUnits, halves rounded up).
C19_BodySize ==
    LET round == (2 * body.L * body.q + DevUnits) \div (2 * DevUnits) IN
    (body.stage \in {"built", "panic"} /\ hasContent(body.L, body.q)) =>
        /\ body.stage = "built"
        /\ body.B >= 0
        /\ body.L - round <= body.B
        /\ body.B <= body.L + round
        /\ body.q = 0 => body.B = body.L

\* C20: with m > 0, after n throttled requests the worker's clock shows at
\* least n * m, whatever the requests' durations were.
C20_RateBound ==
    thr.m > 0 => thr.elapsed >= thr.n * thr.m

\* three requests with m = 2: the worker slept 3 units in all and is exactly
\* on its schedule
C20_Witness ==
    /\ thr.m = 2 /\ thr.n = 3
    /\ thr.slept = 3
    /\ thr.elapsed = 6

\* C21: at every moment p.logEntries is a prefix of the entries parsed from
\* the access log, in log order and without duplicates, whatever the number
\* of workers and the order of their offers; once a worker has been handed
\* every log entry of a pass, or the reader has reported the end of the log,
\* or a worker has been reset, p.logEntries is the whole log.
C21_MemoIsPrefix ==
    /\ Len(logEntries) <= Len(LogInput)
    /\ logEntries = SubSeq(LogInput, 1, Len(logEntries))
    /\ \A i, j \in 1..Len(logEntries) : i # j => logEntries[i] # logEntries[j]
    /\ (\E w \in Workers : position[w] >= Len(LogInput)) => logEntries = LogInput
    /\ (options.AccessLog.present /\ ~accessLog.open) => logEntries = LogInput
    /\ looped => logEntries = LogInput

\* two workers replay a log of two entries in a loop: the log is memoized
\* whole, one worker is in a later pass and was served the first entry from
\* memory, the other is elsewhere in the scenario
C21_Witness ==
    /\ options.ConcurrentSessions = 2
    /\ Len(LogInput) = 2
    /\ logEntries = LogInput
    /\ looped
    /\ \E w, v \in Workers :
        /\ position[w] = 1 /\ last[w] = LogInput[1] /\ wpc[w] = "request"
        /\ position[v] = 2

\* C22: the access log is read only once. A reader that has reported the end
\* of the stream is retired (p.accessLog = nil) and so is never called again;
\* from then on neither the reader nor p.logEntries changes, p.logEntries is
\* the whole log, and every descriptor handed to a worker, in any later pass
\* or session, is taken from p.logEntries and the user-supplied requests.
C22_ReadOnce ==
    [][/\ accessLog.eof => ~accessLog.open
       /\ accessLog'.eof => ~accessLog'.open
       /\ (options.AccessLog.present /\ ~accessLog.open) =>
            /\ accessLog.eof
            /\ accessLog' = accessLog
            /\ logEntries' = logEntries
            /\ logEntries = LogInput
            /\ \A w \in Workers :
                (wpc[w] = "select" /\ wpc'[w] = "request") =>
                    last'[w] = (logEntries \o customRequests)[position[w] + 1]
      ]_vars

\* a second session, started after a Once pass in which the log was read to
\* its end: a worker holds the second log entry, served from memory
C22_Witness ==
    /\ session = 2
    /\ accessLog.eof /\ ~accessLog.open
    /\ Len(LogInput) = 2
    /\ \E w \in Workers :
        wpc[w] = "request" /\ position[w] = 2 /\ last[w] = LogInput[2]

\* C23, as stated: in a throttle step with slack = m - (time the request
\* took), a lag that was negative is not clamped when the slack is negative
\* too (it becomes lag + slack), and a lag that was not negative is floored at
\* zero when a negative slack would push it below zero.
C23_ClampAsStated ==
    [][LET dur == (thr'.elapsed - thr.elapsed) - (thr'.slept - thr.slept)
           slack == thr.m - dur
       IN  thr.m > 0 =>
            /\ (thr.throttleLag < 0 /\ slack < 0) =>
                    thr'.throttleLag = thr.throttleLag + slack
            /\ (thr.throttleLag >= 0 /\ slack < 0
                    /\ thr.throttleLag + slack < 0) =>
                    thr'.throttleLag = 0
      ]_vars

\* C23, amended: a lag that was negative is reset to zero when the slack is
\* negative too (the debt is dropped); a lag that was not negative becomes
\* lag + slack, below zero, when the slack is negative (it is not floored).
C23_Clamp ==
    [][LET dur == (thr'.elapsed - thr.elapsed) - (thr'.slept - thr.slept)
           slack == thr.m - dur
       IN  thr.m > 0 =>
            /\ (thr.throttleLag < 0 /\ slack < 0) => thr'.throttleLag = 0
            /\ (thr.throttleLag >= 0 /\ slack < 0) =>
                    /\ thr'.throttleLag = thr.throttleLag + slack
                    /\ thr'.throttleLag < 0
      ]_vars

\* m = 1 and three requests of 3 units each: the lag went 0, -2, 0 (reset),
\* -2 (not floored), and the worker never slept
C23_Witness ==
    /\ thr.m = 1 /\ thr.n = 3
    /\ thr.elapsed = 9 /\ thr.slept = 0
    /\ thr.throttleLag = -2

\* C24: for every Throttle > 0 and every number N >= 1 of workers, a worker
\* is created with a positive maxRequestDuration of one second divided by
\* Throttle / N (to the resolution of the clock), also when Throttle / N is
\* fractional or below one request per second.
C24_MaxRequestDuration ==
    (np.stage \in {"new", "panic"} /\ np.T > 0) =>
        /\ np.stage = "new"
        /\ np.m > 0
        /\ np.m = (Second * RateUnits * np.N) \div np.T

\* C25: the step in which the driver takes a Play or Once signal appends the
\* caller to p.waitingError, sets p.once and turns the feed on, and nothing
\* else: no worker is started, dropped or moved, no reply channel is closed,
\* the driver stays in its loop, and p.logEntries, the reader and both
\* failure counters are as before.
C25_SignalFrame ==
    [][\A sig \in {"Play", "Once"} :
        LET ch == IF sig = "Play" THEN signalPlay ELSE signalOnce
            chAfter == IF sig = "Play" THEN signalPlay' ELSE signalOnce'
        IN  (ctl = "select" /\ ch # <<>> /\ chAfter = <<>>) =>
                /\ waitingError' = Append(waitingError, Head(ch))
                /\ once' = (sig = "Once")
                /\ feed'
                /\ ctl' = "select"
                /\ players' = players
                /\ workerVars' = workerVars
                /\ closeD' = closeD /\ stopD' = stopD
                /\ scenarioVars' = scenarioVars
                /\ counterVars' = counterVars
                /\ session' = session /\ drivers' = drivers
                /\ notRunning' = notRunning
                /\ callerVars' = callerVars
      ]_vars

\* a Once session in which a request has failed; a Play call joined it and
\* its signal was taken: both callers are parked, the mode is loop, the
\* worker is where it was and the failure is still counted
C25_Witness ==
    /\ session = 1 /\ ctl = "select"
    /\ Len(waitingError) = 2
    /\ op[waitingError[1]] = "Once" /\ op[waitingError[2]] = "Play"
    /\ attach[waitingError[2]] = 1
    /\ ~once /\ feed
    /\ errors = 1
    /\ \E w \in Workers : position[w] = 1 /\ wpc[w] = "select"

\* C26: in loop mode with a non-empty scenario, when the driver takes the
\* offer of a worker whose position is the length of the scenario, the worker
\* receives the reset sentinel and its position becomes 0, and the descriptor
\* a worker at position 0 receives is the first of the scenario; the driver
\* leaves its loop only for a Stop signal or a halt with RequestError or
\* ServerError, never for the end of the scenario.
C26_LoopResets ==
    [][/\ \A w \in Workers :
            (/\ CtlFeed(w)
             /\ ~once /\ Len(Scenario) > 0 /\ ~options.AccessLog.fails
             /\ position[w] = Len(Scenario)) =>
                /\ position'[w] = 0
                /\ ctl' = "select"
                /\ players' = players /\ feedOpen' = feedOpen
       /\ \A w \in Workers :
            (/\ ~once /\ Len(Scenario) > 0 /\ ~options.AccessLog.fails
             /\ position[w] = 0
             /\ wpc[w] = "select" /\ wpc'[w] = "request") =>
                last'[w] = Scenario[1]
       /\ (ctl = "select" /\ ctl' # "select" /\ ~once /\ Len(Scenario) > 0) =>
            \/ signalStop # <<>> /\ signalStop' = <<>> /\ ctl' = "token"
            \/ ctl' = "token" /\ terminal' \in {ErrRequestError, ErrServerError}
      ]_vars

\* C27: ErrNoRequests is the terminal value of a session, and the value a
\* Play or Once call returns, only when the scenario is empty: no user-supplied
\* request, and a log (if any) that ends before its first entry.
C27_NoRequestsOnlyIfEmpty ==
    /\ terminal = ErrNoRequests => EmptyScenario
    /\ \A c \in Callers : ret[c] = ErrNoRequests => EmptyScenario

\* a loop-mode session over a non-empty scenario: a worker reached the end
\* and was reset, then Stop ended the session and Play returned nil
C27_Witness ==
    /\ Len(Scenario) > 0
    /\ looped /\ ~once
    /\ Ended /\ terminal = Nil
    /\ \E c \in Callers : op[c] = "Play" /\ cpc[c] = "idle" /\ ret[c] = Nil

\* C28: in once mode, when the driver takes the offer of a live worker whose
\* position is the length of the scenario: if other workers are left, the
\* worker's reply channel is closed and it is removed, the driver stays in
\* its loop and the other workers are untouched; if it is the last one, the
\* session ends with nil, no worker is then inside a request, and the parked
\* callers are sent nil. A session ends with nil without a Stop signal only
\* in that way.
C28_OnceEnd ==
    [][/\ \A w \in Workers :
            (/\ CtlFeed(w)
             /\ once /\ ~options.AccessLog.fails
             /\ position[w] = Len(Scenario)
             /\ w \in Range(players)) =>
                /\ ~feedOpen'[w]
                /\ w \notin Range(players')
                /\ position' = position
                /\ IF Len(players) > 1
                     THEN /\ ctl' = "select"
                          /\ Range(players') = Range(players) \ {w}
                          /\ Len(players') = Len(players) - 1
                          /\ \A v \in Workers \ {w} : feedOpen'[v] = feedOpen[v]
                          /\ wpc' = wpc /\ issued' = issued
                          /\ terminal' = terminal
                          /\ callerVars' = callerVars
                     ELSE /\ ctl' = "token"
                          /\ players' = <<>>
                          /\ terminal' = Nil
                          /\ \A v \in Workers : wpc[v] # "request"
                          /\ \A c \in Range(waitingError) :
                                cpc'[c] = "idle" /\ ret'[c] = Nil
       /\ (ctl = "select" /\ ctl' = "token" /\ terminal' = Nil
                /\ signalStop' = signalStop) =>
            \E w \in Workers :
                /\ once /\ players = <<w>>
                /\ wpc[w] = "select" /\ position[w] = Len(Scenario)
                /\ \A v \in Workers : wpc[v] # "request"
      ]_vars

\* a Once session of two workers over two descriptors has ended at the end of
\* the scenario: both workers were dropped at position 2, every result was
\* received, and Once returned nil
C28_Witness ==
    /\ Ended /\ once /\ terminal = Nil
    /\ options.ConcurrentSessions = 2 /\ Len(Scenario) = 2
    /\ players = <<>>
    /\ \A w \in Workers : position[w] = 2 /\ ~feedOpen[w] /\ wpc[w] # "request"
    /\ \A c \in Callers : op[c] # "Stop"
    /\ \E c \in Callers : op[c] = "Once" /\ cpc[c] = "idle" /\ ret[c] = Nil

\* C29: when the driver takes a worker's offer and the log reader fails with
\* an error other than end of stream, the failure is counted as a request
\* error and nothing is handed out: p.logEntries and the reader are as
\* before, the worker receives no descriptor and keeps its position. Below
\* the threshold the session goes on and the worker's offer of the same
\* position can be taken again; at the threshold the session halts with
\* RequestError.
C29_ReadError ==
    [][\A w \in Workers :
        (/\ CtlFeed(w)
         /\ position[w] >= Len(logEntries) /\ accessLog.open
         /\ ReadRequest(accessLog).err \notin {Nil, EOF}) =>
            /\ scenarioVars' = scenarioVars
            /\ position' = position /\ last' = last
            /\ wpc' = wpc /\ issued' = issued
            /\ serverErrors' = serverErrors
            /\ IF errors + 1 < options.HaltThreshold
                 THEN /\ errors' = errors + 1
                      /\ ctl' = "select" /\ feed'
                      /\ players' = players /\ feedOpen' = feedOpen
                      /\ terminal' = terminal
                      /\ callerVars' = callerVars
                      /\ wpc'[w] = "select" /\ feedOpen'[w]
                 ELSE /\ errors' > errors
                      /\ ctl' = "token"
                      /\ terminal' = ErrRequestError
                      /\ \A c \in Range(waitingError) :
                            cpc'[c] = "idle" /\ ret'[c] = ErrRequestError
      ]_vars

\* the log failed after its only entry: the worker that asked for the next
\* entry got nothing, the failure is counted, and the worker offers position
\* 1 again
C29_Witness ==
    /\ session = 1 /\ ctl = "select" /\ feed
    /\ options.AccessLog.fails /\ options.HaltThreshold = 2
    /\ logEntries = LogInput /\ Len(LogInput) = 1
    /\ errors = 1 /\ consecErr = 0 /\ failsSinceOk = 1
    /\ \E w \in Workers :
        position[w] = 1 /\ wpc[w] = "select" /\ feedOpen[w] /\ last[w] = LogInput[1]

\* C30: a worker handles its requests one at a time and every descriptor it
\* receives leads to a result report: a worker that holds a descriptor can
\* still call the client or have its result received, so that when the
\* program has come to rest no worker is left holding a descriptor whose
\* result was never received.
C30_WorkerSerial ==
    (ctl # "panic" /\ ~ENABLED Internal) =>
        \A w \in Workers : wpc[w] # "request"

\* C31: a worker's position never exceeds the length of the scenario and,
\* while the reader is set, never the length of p.logEntries; within a
\* session it only grows, one descriptor at a time, except for the reset to 0
\* at the end of the scenario in loop mode. The reader is therefore asked for
\* an entry only by an offer whose position is the length of p.logEntries,
\* and the entry it returns is memoized at that position and is the
\* descriptor the worker receives.
C31_PositionBounds ==
    [][/\ \A w \in Workers :
            /\ position[w] <= Len(Scenario)
            /\ position'[w] <= Len(Scenario)
            /\ accessLog.open => position[w] <= Len(logEntries)
            /\ accessLog'.open => position'[w] <= Len(logEntries')
            /\ (session' = session /\ position'[w] # position[w]) =>
                \/ position'[w] = position[w] + 1
                \/ /\ position'[w] = 0
                   /\ ~once /\ position[w] = Len(Scenario)
       /\ accessLog'.read # accessLog.read =>
            /\ accessLog'.read = accessLog.read + 1
            /\ Len(logEntries) = accessLog.read
            /\ \E w \in Workers :
                /\ CtlFeed(w)
                /\ position[w] = Len(logEntries)
                /\ logEntries' = Append(logEntries, LogInput[position[w] + 1])
                /\ last'[w] = LogInput[position[w] + 1]
                /\ position'[w] = position[w] + 1
      ]_vars

\* two workers on a log of two entries that has not been read to its end:
\* worker 1 was handed both entries as they were read, worker 2 follows in
\* the memoized prefix
C31_Witness ==
    /\ accessLog.open /\ accessLog.read = 2
    /\ logEntries = LogInput /\ Len(LogInput) = 2
    /\ position[1] = 2 /\ last[1] = LogInput[2]
    /\ position[2] = 1 /\ last[2] = LogInput[1]

\* C32: a Stop call made while no driver is in its loop is a no-op: it does
\* not stay unanswered when the program has come to rest, and no session is
\* ended by its signal.
C32_IdleStopNoOp ==
    /\ (ctl # "panic" /\ ~ENABLED Internal) =>
            \A c \in Callers :
                ~(op[c] = "Stop" /\ cpc[c] = "wait" /\ attach[c] = 0)
    /\ (ctl = "token" /\ stopD # 0) => attach[stopD] # 0

\* C33: a descriptor served from the access log with method POST, PUT or
\* PATCH carries PostContentLength, PostContentLengthDeviation and
\* PostSetContentLength, on the first read and on every memoized pass; a log
\* descriptor with another method and every user-supplied Request is served
\* with its own content fields
C33_ContentSettings ==
    nr.stage = "serve" =>
       /\ nr.from \in {"read", "memo"} =>
             /\ nr.out.Method = nr.log[nr.idx].Method
             /\ nr.out.Method \in {"POST", "PUT", "PATCH"} =>
                   /\ nr.out.ContentLength = nr.post.L
                   /\ nr.out.ContentLengthDeviation = nr.post.q
                   /\ nr.out.SetContentLength = nr.post.set
             /\ nr.out.Method \notin {"POST", "PUT", "PATCH"} =>
                   nr.out = nr.log[nr.idx]
       /\ nr.from = "custom" => nr.out = nr.custom[nr.idx]

C33_Witness ==
    /\ nr.stage = "serve" /\ nr.passes = 1 /\ nr.from = "memo" /\ nr.idx = 2
    /\ nr.log[2].Method = "PUT" /\ nr.log[2].ContentLength = 1
    /\ nr.out.ContentLength = 0 /\ nr.out.SetContentLength
    /\ nr.log[1].Method = "GET" /\ nr.custom # <<>>
    /\ nr.custom[1].Method = "POST" /\ nr.custom[1].ContentLength = 1

\* C34: a response with status 500 or above is a ServerError; every other
\* response, each 4xx among them, whose body is read is ok: it increments no
\* counter, sets both counters to zero and does not halt, and a halt happens
\* only after HaltThreshold results in a row that were not ok
C34_Classification ==
    [][cl.stage = "final" =>
          /\ (cl.sent /\ cl.status >= 500) => cl'.res = ErrServerError
          /\ cl'.res = ErrServerError => (cl.sent /\ cl.status >= 500)
          /\ (cl.sent /\ cl.status < 500 /\ ~cl'.readFailed) =>
                /\ cl'.res = Nil
                /\ cl'.errors = 0 /\ cl'.serverErrors = 0
                /\ cl'.halt = Nil /\ cl'.stage # "halted"
                /\ cl'.fails = 0
          /\ cl'.stage = "halted" =>
                /\ cl'.halt # Nil /\ cl'.res # Nil
                /\ cl'.fails >= options.HaltThreshold
                /\ cl'.errors + cl'.serverErrors <= cl'.fails]_vars

C34_Witness ==
    /\ cl.stage = "start" /\ cl.n = 2
    /\ cl.sent /\ cl.status = 404 /\ cl.res = Nil
    /\ cl.was.serverErrors = 1 /\ cl.serverErrors = 0 /\ cl.errors = 0
    /\ options.HaltOn500 /\ options.HaltThreshold = 2

\* C35: a redirect is followed never with NoFollow, always with
\* FollowRedirect, and with FollowSameHost exactly when the host of the
\* target equals the URL host of the original request; when it is not
\* followed the redirect response is the one client.do gets
C35_RedirectPolicy ==
    [][cl.stage = "redirect" =>
          /\ cl'.stage \in {"send", "final"}
          /\ cl'.stage = "send" <=>
                \/ cl.RedirectBehavior = "FollowRedirect"
                \/ /\ cl.RedirectBehavior = "FollowSameHost"
                   /\ cl.target = cl.rp[1]
          /\ cl'.stage = "send" => cl'.rp = Append(cl.rp, cl.target)
          /\ cl'.stage = "final" =>
                /\ cl'.rp = cl.rp /\ cl'.status = 302 /\ cl'.sent
                /\ cl.RedirectBehavior = "NoFollow"
                   \/ (cl.RedirectBehavior = "FollowSameHost"
                       /\ cl.target # cl.rp[1])]_vars

C35_Witness ==
    /\ cl.RedirectBehavior = "FollowSameHost"
    /\ cl.stage = "final" /\ cl.status = 302
    /\ Len(cl.rp) = 2 /\ cl.rp[2] = cl.rp[1]
    /\ cl.target # cl.rp[1] /\ cl.target = cl.Host

C37_NoSendOnClosed ==
    /\ ctl # "panic"
    /\ \A i \in 1..Len(players) : feedOpen[players[i]]

\* C38: every session starts with both failure counters at zero, whatever way
\* the session before it ended
C38_CountersStartAtZero ==
    [][session' = session + 1 => (errors' = 0 /\ serverErrors' = 0)]_vars

\* C39: the driver never fails to hand off: a worker it sends a descriptor or
\* the reset sentinel to can receive it, so the driver gets back to its
\* select, and no signal sent during a session stays unprocessed: when the
\* program has come to rest no Play or Once signal and no Pause or Stop
\* signal sent to a running driver is left in its buffer
C39_HandOffsComplete ==
    /\ \A w \in Workers : ~ENABLED FeedPanic(w)
    /\ ctl # "panic"
    /\ ~ENABLED Internal =>
          /\ signalPlay = <<>> /\ signalOnce = <<>>
          /\ \A c \in Range(signalPause) \cup Range(signalStop) : attach[c] = 0

\* C40: the mode of a session is the mode of the Play or Once signal handled
\* last, for all waiters: handling Play sets loop mode and handling Once sets
\* once mode, nothing else changes the mode within a session; a session that
\* ends at the end of the scenario was in once mode and releases every
\* waiter, the earlier Play callers too, with nil; and in loop mode an offer at
\* the end of a non-empty scenario, made after a Play switched the session
\* from once mode, resets a worker that was not dropped and the session goes on
C40_ModeOfLastSignal ==
    [][/\ (ctl = "select" /\ signalPlay # <<>> /\ signalPlay' = <<>>) =>
             (~once' /\ waitingError' = Append(waitingError, Head(signalPlay)))
       /\ (ctl = "select" /\ signalOnce # <<>> /\ signalOnce' = <<>>) =>
             (once' /\ waitingError' = Append(waitingError, Head(signalOnce)))
       /\ once' # once =>
             (ctl = "select" /\ (signalPlay' # signalPlay
                                 \/ signalOnce' # signalOnce))
       /\ (ctl = "select" /\ ctl' = "token" /\ terminal' = Nil
           /\ signalStop' = signalStop) =>
             /\ once
             /\ \A c \in Range(waitingError) :
                   cpc'[c] = "idle" /\ ret'[c] = Nil
       /\ \A w \in Workers :
             (CtlFeed(w) /\ ~once /\ position[w] > 0
              /\ lookup(w).err = EOF) =>
                (ctl' = "select" /\ position'[w] = 0 /\ w \in Range(players)
                 /\ players' = players)]_vars

====
